---- MODULE Spec2Model ----
(***************************************************************************)
(* Lua::CallCore and its format-string Reader (Support.cpp), with the      *)
(* helpers of Helpers.cpp they call, over a model of the Lua 5.1 stack,    *)
(* tables and registry.                                                    *)
(*                                                                         *)
(* A format string is a sequence of one-character tokens; position         *)
(* Len(params) + 1 holds the terminating '\0' (NUL).  The variadic         *)
(* argument list is a sequence of integers read through a cursor: a bool   *)
(* is 0/1, a pointer is 0 (null) or an address, a C string is 0 (null) or  *)
(* an index into a pool of strings.                                        *)
(*                                                                         *)
(* After the claims about CallCore come the __index and __newindex         *)
(* closures of Lua::BindPeer (Peer.cpp) with the conversions of Arg.cpp,   *)
(* under SpecPeer, and luaT_boxed_set_ref with the hooks built on it       *)
(* (Templates.h), under SpecBox.                                           *)
(***************************************************************************)
EXTENDS Integers, Sequences, FiniteSets, TLC

VARIABLES
    pc,          \* position inside CallCore
    params,      \* const char * params
    args,        \* the caller's variadic arguments, in order
    bProtected,  \* bool bProtected
    retc,        \* int retc
    count,       \* int count (arguments already on the stack, then all of them)
    top,         \* int top (stack height at entry)
    after,       \* int after
    r,           \* the Reader, with the Lua state it points at (r.mL)
    error,       \* Types::LuaString error (protected failure path)
    raised,      \* how CallCore was left: what was thrown or raised
    result,      \* the value CallCore returned
    invoked,     \* how many times the call of the target was made
    callee,      \* what the target does once it is called
    peer,        \* the bound type of BindPeer: its struct, closures and last access
    box          \* a handle boxing a reference-counted object, and the objects

vars == <<pc, params, args, bProtected, retc, count, top, after, r, error,
          raised, result, invoked, callee, peer, box>>

-----------------------------------------------------------------------------
(* Bounds of the model *)

\* longest format string of the scalar family
MaxLen == 2
\* longest body after the opening brace, in the family with a failing directive
MaxBody == 3
\* longest body after the opening brace, in the family of table structure
MaxTable == 5
\* most results a callee returns under LUA_MULTRET
MaxRes == 2
\* key/value pairs in a table of pairs
MaxPairs == 2

-----------------------------------------------------------------------------
(* Lua values: a type tag and a payload (an integer n or a string s) *)

NilV == [t |-> "nil", n |-> 0]
BoolV(b) == [t |-> "boolean", n |-> IF b THEN 1 ELSE 0]
NumV(x) == [t |-> "number", n |-> x]
StrV(x) == [t |-> "string", s |-> x]
UdV(p) == [t |-> "lightuserdata", n |-> p]
FuncV(f) == [t |-> "function", n |-> f]
TableV(id) == [t |-> "table", n |-> id]

NUL == "NUL"
NoError == ""
LUA_MULTRET == -1
LUA_REGISTRYINDEX == -10000
LUA_ENVIRONINDEX == -10001
LUA_GLOBALSINDEX == -10002
lua_upvalueindex(i) == LUA_GLOBALSINDEX - i

\* heap ids of the tables every Lua state starts with
GlobalsId == 1
NamespaceId == 2
RegistryId == 3

\* the key CacheAndGet(L, ErrorFunc) uses, and the closure it caches
ErrorFuncKey == UdV(99)
ErrorFuncV == FuncV(99)

\* _G = { v = 7, t = { x = 5 }, f = function }, an empty registry
InitHeap ==
    << { [k |-> StrV("v"), v |-> NumV(7)],
         [k |-> StrV("t"), v |-> TableV(NamespaceId)],
         [k |-> StrV("f"), v |-> FuncV(1)] },
       { [k |-> StrV("x"), v |-> NumV(5)] },
       {} >>

\* the strings a `s` argument may point at (0 is the null pointer)
StrPool == <<"a", "b">>

\* the names a `g` argument may point at, as C strings
NamePool == << <<"v">>, <<"u">>, <<"t", ".", "x">>, <<"u", ".", "x">> >>

-----------------------------------------------------------------------------
(* The Lua C API, as far as the modelled code uses it *)

\* the one element of a singleton.  Only({F(x) : x \in {E}}) evaluates E once and
\* names its value x: the way the results of calls are bound below
Only(S) == CHOOSE x \in S : TRUE

Height(m) == Len(m.mL.stack)

\* lua_gettop
lua_gettop(m) == Height(m)

\* a propagating Lua error (lua_error) or an API-contract violation
Raised(m) == m.lerr # NoError \/ m.ub

LuaError(m, msg) == [m EXCEPT !.lerr = msg, !.ok = FALSE]

Undefined(m) == [m EXCEPT !.ub = TRUE, !.ok = FALSE]

\* lua_push*
PushValue(m, v) == [m EXCEPT !.mL.stack = Append(@, v)]

\* lua_settop to a height not above the current one, lua_pop
SetTop(m, h) ==
    [m EXCEPT !.mL.stack = IF h <= Len(@) THEN SubSeq(@, 1, h)
                           ELSE @ \o [i \in 1..(h - Len(@)) |-> NilV]]

\* raw table read: the value stored under key k, nil when there is none
RawGet(tbl, k) ==
    IF \E e \in tbl : e.k = k THEN (CHOOSE e \in tbl : e.k = k).v ELSE NilV

\* raw table write: storing nil removes the entry
RawSet(tbl, k, v) ==
    LET rest == {e \in tbl : e.k # k}
    IN  IF v = NilV THEN rest ELSE rest \cup {[k |-> k, v |-> v]}

\* the value an acceptable index refers to (pseudo-indices included)
Index2Value(m, idx) ==
    IF idx = LUA_REGISTRYINDEX THEN TableV(RegistryId)
    ELSE IF idx \in {LUA_GLOBALSINDEX, LUA_ENVIRONINDEX} THEN TableV(GlobalsId)
    ELSE IF idx >= 1 /\ idx <= Height(m) THEN m.mL.stack[idx]
    ELSE NilV

\* lua_newtable
lua_newtable(m) ==
    [m EXCEPT !.mL.heap = Append(@, {}),
              !.mL.stack = Append(@, TableV(Len(m.mL.heap) + 1))]

\* lua_objlen of a table: a border, the first n with t[n + 1] == nil
RECURSIVE Border(_, _)
Border(tbl, n) ==
    IF RawGet(tbl, NumV(n + 1)) = NilV THEN n ELSE Border(tbl, n + 1)

\* Lua::GetN
GetN(m, v) ==
    IF v.t = "table" THEN Border(m.mL.heap[v.n], 0) ELSE 0

\* Lua::Push(L, -2): lua_rawseti(L, -2, GetN(L, -2) + 1), popping the value
Push(m) ==
    LET h == Height(m)
        tv == m.mL.stack[h - 1]
    IN  IF h < 2 \/ tv.t # "table" THEN Undefined(m)
        ELSE [m EXCEPT !.mL.heap[tv.n] =
                           RawSet(@, NumV(GetN(m, tv) + 1), m.mL.stack[h]),
                       !.mL.stack = SubSeq(@, 1, h - 1)]

\* lua_settable(L, -3): t[k] = v for the table below key and value, both popped
lua_settable(m) ==
    LET h == Height(m)
        tv == m.mL.stack[h - 2]
    IN  IF h < 3 THEN Undefined(m)
        ELSE IF tv.t # "table"
        THEN LuaError(m, "attempt to index a " \o tv.t \o " value")
        ELSE IF m.mL.stack[h - 1] = NilV
        THEN LuaError(m, "table index is nil")
        ELSE [m EXCEPT !.mL.heap[tv.n] =
                           RawSet(@, m.mL.stack[h - 1], m.mL.stack[h]),
                       !.mL.stack = SubSeq(@, 1, h - 2)]

\* the characters of a C string joined into one Lua string
RECURSIVE Join(_)
Join(cs) == IF cs = <<>> THEN "" ELSE Head(cs) \o Join(Tail(cs))

\* strchr(name, '.'): the position of the first dot, 0 when there is none
RECURSIVE StrChrDot(_, _)
StrChrDot(name, i) ==
    IF i > Len(name) THEN 0
    ELSE IF name[i] = "." THEN i
    ELSE StrChrDot(name, i + 1)

\* Lua::GetGlobal: the loop over the dotted levels, then the final field;
\* yields the value found, or the Lua error indexing a non-table raises
RECURSIVE GetGlobalFrom(_, _, _)
GetGlobalFrom(heap, level, name) ==
    LET dot == StrChrDot(name, 1)
        key == StrV(Join(IF dot = 0 THEN name ELSE SubSeq(name, 1, dot - 1)))
    IN  IF level.t # "table"
        THEN [v |-> NilV, err |-> "attempt to index a " \o level.t \o " value"]
        ELSE IF dot = 0
        THEN [v |-> RawGet(heap[level.n], key), err |-> NoError]
        ELSE GetGlobalFrom(heap, RawGet(heap[level.n], key),
                           SubSeq(name, dot + 1, Len(name)))

GetGlobal(m, name) ==
    LET g == GetGlobalFrom(m.mL.heap, TableV(GlobalsId), name)
    IN  IF g.err # NoError THEN LuaError(m, g.err) ELSE PushValue(m, g.v)

-----------------------------------------------------------------------------
(* struct Reader *)

\* *mParams, after the whitespace ReadElement has skipped
CharAt(p) == IF p >= 1 /\ p <= Len(params) THEN params[p] ELSE NUL
Cur(m) == CharAt(m.mParams)

\* isspace
IsSpace(c) == c = " "

\* while (isspace(*mParams)) ++mParams;
RECURSIVE SkipSpace(_)
SkipSpace(p) == IF IsSpace(CharAt(p)) THEN SkipSpace(p + 1) ELSE p

\* va_arg(mArgs, T): the next variadic argument; the cursor moves by one.
\* Reading past the caller's last argument is outside the contract of va_arg.
VaArg(m) == IF m.mArgs < Len(args) THEN args[m.mArgs + 1] ELSE 0
VaNext(m) ==
    IF m.mArgs < Len(args) THEN [m EXCEPT !.mArgs = @ + 1] ELSE Undefined(m)

\* Reader::Error as it would be if a later error replaced the recorded one
ErrorKeepLast(m, err) ==
    [m EXCEPT !.mError = err,
              !.errAt = IF m.mError = NoError
                        THEN [set |-> TRUE, mL |-> m.mL, mArgs |-> m.mArgs, err |-> err]
                        ELSE @,
              !.ok = FALSE]
\* Reader::Error: keeps the first error; errAt remembers the error, the Lua
\* state and the argument cursor at the moment the first error was recorded
Error(m, err) ==
    [m EXCEPT !.mError = IF @ = NoError THEN err ELSE @,
              !.errAt = IF m.mError = NoError
                        THEN [set |-> TRUE, mL |-> m.mL, mArgs |-> m.mArgs, err |-> err]
                        ELSE @,
              !.ok = FALSE]

True(m) == [m EXCEPT !.ok = TRUE]

\* Reader::_a as it would be if `a` resolved against the current top as `r` does
_aCurrentTop(m) ==
    LET raw == VaArg(m)
        m1 == VaNext(m)
        pseudo == raw >= lua_upvalueindex(256) /\ raw <= LUA_REGISTRYINDEX
        arg == IF ~pseudo /\ raw < 0
               THEN raw + lua_gettop(m) + 1
               ELSE raw
    IN  IF Raised(m1) THEN m1
        ELSE IF ~pseudo /\ (arg <= 0 \/ arg > lua_gettop(m1))
        THEN Error(m1, "Bad index")
        ELSE IF m1.mInKey /\ Index2Value(m1, arg) = NilV
        THEN Error(m1, "Null key")
        ELSE True(IF ~m1.mShouldSkip THEN PushValue(m1, Index2Value(m1, arg))
                  ELSE m1)
\* Reader::_a: `a` and `r`
_a(m) ==
    LET raw == VaArg(m)
        m1 == VaNext(m)
        pseudo == raw >= lua_upvalueindex(256) /\ raw <= LUA_REGISTRYINDEX
        arg == IF ~pseudo /\ raw < 0
               THEN raw + (IF Cur(m) = "a" THEN m.mTop ELSE lua_gettop(m) + 1)
               ELSE raw
    IN  IF Raised(m1) THEN m1
        ELSE IF ~pseudo /\ (arg <= 0 \/ arg > lua_gettop(m1))
        THEN Error(m1, "Bad index")
        ELSE IF m1.mInKey /\ Index2Value(m1, arg) = NilV
        THEN Error(m1, "Null key")
        ELSE True(IF ~m1.mShouldSkip THEN PushValue(m1, Index2Value(m1, arg))
                  ELSE m1)

\* Reader::_b: `b`, `T` and `F`
_b(m) ==
    LET m1 == IF Cur(m) = "b" THEN VaNext(m) ELSE m
        bArg == IF Cur(m) = "b" THEN VaArg(m) # 0 ELSE Cur(m) = "T"
    IN  IF Raised(m1) THEN m1
        ELSE IF ~m1.mShouldSkip THEN PushValue(m1, BoolV(bArg)) ELSE m1

\* Reader::_f
_f(m) ==
    LET m1 == VaNext(m)
    IN  IF Raised(m1) THEN m1
        ELSE IF ~m1.mShouldSkip THEN PushValue(m1, FuncV(VaArg(m))) ELSE m1

\* Reader::_i as it would be if a suppressed directive left its argument unread
_iNoReadWhenSkipped(m) ==
    IF m.mShouldSkip THEN m
    ELSE LET m1 == VaNext(m)
         IN  IF Raised(m1) THEN m1 ELSE PushValue(m1, NumV(VaArg(m)))
\* Reader::_i
_i(m) ==
    LET m1 == VaNext(m)
    IN  IF Raised(m1) THEN m1
        ELSE IF ~m1.mShouldSkip THEN PushValue(m1, NumV(VaArg(m))) ELSE m1

\* Reader::_n
_n(m) ==
    LET m1 == VaNext(m)
    IN  IF Raised(m1) THEN m1
        ELSE IF ~m1.mShouldSkip THEN PushValue(m1, NumV(VaArg(m))) ELSE m1

\* Reader::_s: lua_pushstring pushes nil for a null pointer
_s(m) ==
    LET m1 == VaNext(m)
        str == VaArg(m)
    IN  IF Raised(m1) THEN m1
        ELSE IF ~m1.mShouldSkip
        THEN PushValue(m1, IF str = 0 THEN NilV ELSE StrV(StrPool[str]))
        ELSE m1

\* Reader::_u: `u` and `U`
_u(m) ==
    LET m1 == VaNext(m)
        ud == VaArg(m)
    IN  IF Raised(m1) THEN m1
        ELSE IF ~m1.mShouldSkip
        THEN IF ud = 0
             THEN IF Cur(m) = "U" THEN Error(m1, "Null userdata")
                  ELSE True(PushValue(m1, NilV))
             ELSE True(PushValue(m1, UdV(ud)))
        ELSE True(m1)

\* Reader::_0
_zero(m) ==
    IF m.mInKey THEN Error(m, "Null key")
    ELSE True(IF ~m.mShouldSkip THEN PushValue(m, NilV) ELSE m)

\* Reader::_G
_G(m) ==
    LET m1 == VaNext(m)
    IN  IF Raised(m1) THEN m1
        ELSE IF ~m1.mShouldSkip THEN GetGlobal(m1, NamePool[VaArg(m)]) ELSE m1

RECURSIVE ReadElement(_), _table_for(_)

\* Reader::_table, the body of its for loop: one pass reads one element
_table_for(m) ==
    Only({ IF Raised(e) THEN e
           ELSE IF ~e.ok THEN Error(e, "Unclosed table")
           ELSE IF lua_gettop(e) > lua_gettop(m)
           THEN Only({ IF Raised(p) THEN p
                       ELSE _table_for([p EXCEPT !.mParams = @ + 1])
                       : p \in {Push(e)} })
           ELSE IF Cur(e) = "}" THEN True([e EXCEPT !.mHeight = @ - 1])
           ELSE _table_for([e EXCEPT !.mParams = @ + 1])
           : e \in {ReadElement(m)} })

\* Reader::_table
_table(m) ==
    LET m1 == [m EXCEPT !.mHeight = @ + 1]
        m2 == IF ~m1.mShouldSkip THEN lua_newtable(m1) ELSE m1
    IN  _table_for([m2 EXCEPT !.mParams = @ + 1])

\* Reader::_C
_C(m) ==
    IF m.mInKey THEN Error(m, "Conditional key")
    ELSE IF m.mInValue THEN Error(m, "Conditional value")
    ELSE LET m1 == [m EXCEPT !.mParams = @ + 1]
             bSkipSave == m1.mShouldSkip
             bDoSkip == VaArg(m1) = 0
             m2 == VaNext(m1)
             m3 == IF ~m2.mShouldSkip THEN [m2 EXCEPT !.mShouldSkip = bDoSkip]
                   ELSE m2
         IN  IF Raised(m2) THEN m2
             ELSE Only({ IF Raised(e) THEN e
                         ELSE IF ~e.ok THEN Error(e, "Unfinished condition")
                         ELSE True([e EXCEPT !.mShouldSkip = bSkipSave])
                         : e \in {ReadElement(m3)} })

\* Reader::_K
_K(m) ==
    Only({ IF Raised(k) THEN k
           ELSE IF ~k.ok THEN Error(k, "Missing key")
           ELSE Only({ IF Raised(v) THEN v
                       ELSE IF ~v.ok THEN Error(v, "Missing value")
                       ELSE IF ~v.mShouldSkip
                       THEN Only({ IF Raised(s) THEN s ELSE True(s)
                                   : s \in {lua_settable([v EXCEPT !.mInValue = FALSE])} })
                       ELSE True([v EXCEPT !.mInValue = FALSE])
                       : v \in {ReadElement([k EXCEPT !.mParams = @ + 1,
                                                      !.mInKey = FALSE,
                                                      !.mInValue = TRUE])} })
           : k \in {ReadElement([m EXCEPT !.mParams = @ + 1, !.mInKey = TRUE])} })

\* the switch of Reader::ReadElement on the character at hand
Dispatch(m) ==
    LET c == Cur(m)
    IN  CASE c = NUL -> [m EXCEPT !.ok = FALSE]
          [] c \in {"a", "r"} -> _a(m)
          [] c \in {"b", "T", "F"} -> True(_b(m))
          [] c = "f" -> True(_f(m))
          [] c = "i" -> True(_i(m))
          [] c = "n" -> True(_n(m))
          [] c = "s" -> True(_s(m))
          [] c \in {"u", "U"} -> _u(m)
          [] c = "0" -> _zero(m)
          [] c = "g" -> True(_G(m))
          [] c = "{" -> _table(m)
          [] c = "}" -> IF 0 = m.mHeight THEN Error(m, "Unopened table")
                        ELSE True(m)
          [] c = "C" -> _C(m)
          [] c = "K" -> IF 0 = m.mHeight THEN Error(m, "Key outside table")
                        ELSE _K(m)
          [] OTHER -> Error(m, "Bad type")

\* Reader::ReadElement.  Each call leaves one entry in r.log when it returns:
\* the token it read and where, the argument cursor, the stack height and the
\* flags at entry, the cursor, height, position and return value at exit, and
\* the tables before and after the call.
ReadElement(m) ==
    Only({ [x EXCEPT
              !.ok = IF Raised(x) THEN FALSE ELSE @,
              !.log = Append(@,
                [tok |-> CharAt(SkipSpace(m.mParams)), pos |-> SkipSpace(m.mParams),
                 end |-> x.mParams, ap0 |-> m.mArgs, ap1 |-> x.mArgs,
                 h0 |-> Height(m), h1 |-> Height(x),
                 heap0 |-> m.mL.heap, heap1 |-> x.mL.heap,
                 skip |-> m.mShouldSkip, inKey |-> m.mInKey, inValue |-> m.mInValue,
                 depth |-> m.mHeight, err0 |-> m.mError, err1 |-> x.mError,
                 ret |-> x.ok /\ ~Raised(x), raised |-> Raised(x),
                 v |-> IF Height(x) > Height(m) THEN x.mL.stack[Height(x)]
                       ELSE NilV])]
           : x \in {Dispatch([m EXCEPT !.mParams = SkipSpace(@)])} })

-----------------------------------------------------------------------------
(* Helpers.cpp: the protected call with the error function installed *)

\* Lua::CacheAndGet(L, ErrorFunc): the registry entry under the function's
\* address, stored on first use; the function is left on the stack
CacheAndGet(m) ==
    LET reg == m.mL.heap[RegistryId]
        hit == RawGet(reg, ErrorFuncKey)
    IN  IF hit = NilV
        THEN [m EXCEPT !.mL.heap[RegistryId] = RawSet(@, ErrorFuncKey, ErrorFuncV),
                       !.mL.stack = Append(@, ErrorFuncV)]
        ELSE PushValue(m, hit)

\* IndexAbsolute
IndexAbsolute(m, index) ==
    IF index < 0 /\ index >= -lua_gettop(m) THEN index + lua_gettop(m) + 1
    ELSE index

\* lua_insert(L, idx): the top value moves to idx, the ones above idx shift up
lua_insert(m, idx) ==
    LET st == m.mL.stack
        h == Len(st)
    IN  [m EXCEPT !.mL.stack =
            SubSeq(st, 1, idx - 1) \o <<st[h]>> \o SubSeq(st, idx, h - 1)]

\* lua_remove(L, idx)
lua_remove(m, idx) ==
    LET st == m.mL.stack
    IN  [m EXCEPT !.mL.stack = SubSeq(st, 1, idx - 1) \o SubSeq(st, idx + 1, Len(st))]

\* one "\n%s:%d" entry per active frame
RECURSIVE Traceback(_)
Traceback(frames) == IF frames = 0 THEN "" ELSE "\nsrc:1" \o Traceback(frames - 1)

\* the name Lua gives the type of a value in its messages
TypeName(v) == IF v.t = "lightuserdata" THEN "userdata" ELSE v.t

\* ErrorFunc: the message with one entry per frame appended.  lua_concat
\* accepts strings and numbers; on any other message it raises, and the error
\* function then runs on that new message instead.
ErrorFunc(e, frames) ==
    IF frames = 0 THEN e
    ELSE IF e.t = "string" THEN StrV(e.s \o Traceback(frames))
    ELSE IF e.t = "number" THEN StrV(ToString(e.n) \o Traceback(frames))
    ELSE StrV("attempt to concatenate a " \o TypeName(e) \o " value"
              \o Traceback(frames + 1))

\* the values a call leaves: all of them under LUA_MULTRET, else exactly nres
Adjust(res, nres) ==
    IF nres = LUA_MULTRET THEN res
    ELSE [i \in 1..nres |-> IF i <= Len(res) THEN res[i] ELSE NilV]

\* what the call does: the callee returns values, or raises an error value
\* with `frames` call frames active; a value that is no function cannot be
\* called, which is an error raised in the caller's frame (`level` frames)
Callee(fv, out) ==
    IF fv.t = "function" THEN out
    ELSE [out EXCEPT !.ok = FALSE, !.res = <<>>,
                     !.e = StrV("attempt to call a " \o fv.t \o " value"),
                     !.frames = out.level]

\* lua_pcall(L, argc, nres, err): function and arguments are replaced by the
\* results, or by the error value the error function returned
lua_pcall(m, argc, nres, err, out) ==
    LET st == m.mL.stack
        fpos == Len(st) - argc
        o == Callee(st[fpos], out)
    IN  IF o.ok
        THEN [m EXCEPT !.mL.stack = SubSeq(st, 1, fpos - 1) \o Adjust(o.res, nres),
                       !.status = 0]
        ELSE [m EXCEPT !.mL.stack = SubSeq(st, 1, fpos - 1)
                                      \o <<ErrorFunc(o.e, o.frames)>>,
                       !.status = 2]

\* Lua::PCall_EF
PCall_EF(m, argc, nres, out) ==
    LET m1 == CacheAndGet(m)
        err == IndexAbsolute(m1, -(argc + 2))
        m2 == lua_insert(m1, err)
        m3 == lua_pcall(m2, argc, nres, err, out)
    IN  lua_remove(m3, err)

\* luaL_optstring(L, -1, def): the string at the top, def for nil, and a
\* raised argument error for a value that is neither string nor number
luaL_optstring(m, def) ==
    LET v == m.mL.stack[Height(m)]
    IN  IF v.t = "nil" THEN [s |-> def, err |-> NoError]
        ELSE IF v.t = "string" THEN [s |-> v.s, err |-> NoError]
        ELSE IF v.t = "number" THEN [s |-> ToString(v.n), err |-> NoError]
        ELSE [s |-> "", err |-> "bad argument #-1 (string expected, got " \o v.t \o ")"]

-----------------------------------------------------------------------------
(* Lua::CallCore *)

\* the stack height below the target callable and its already-pushed arguments
PreHeight == r.mTop - 1

NotRaised == [how |-> "", msg |-> ""]

\* while (r.ReadElement()) ++r.mParams;  -- an element was read
ReadMore ==
    /\ pc = "parse"
    /\ \E e \in {ReadElement(r)} :
           /\ ~Raised(e) /\ e.ok
           /\ r' = [e EXCEPT !.mParams = @ + 1]
    /\ UNCHANGED <<peer, box>>
    /\ UNCHANGED <<pc, params, args, bProtected, retc, count, top, after, error,
                   raised, result, invoked, callee>>

\* the loop ends: the end of the string or an error
ReadStop ==
    /\ pc = "parse"
    /\ \E e \in {ReadElement(r)} :
           /\ ~Raised(e) /\ ~e.ok
           /\ r' = e
    /\ pc' = "parsed"
    /\ UNCHANGED <<peer, box>>
    /\ UNCHANGED <<params, args, bProtected, retc, count, top, after, error,
                   raised, result, invoked, callee>>

\* a Lua API call made while marshaling raises a Lua error: nothing in CallCore
\* catches it, it leaves CallCore through lua_error with the message on top
ReadRaise ==
    /\ pc = "parse"
    /\ \E e \in {ReadElement(r)} :
           /\ e.lerr # NoError
           /\ r' = PushValue(e, StrV(e.lerr))
           /\ raised' = [how |-> "lua_error", msg |-> e.lerr]
    /\ pc' = "fatal"
    /\ UNCHANGED <<peer, box>>
    /\ UNCHANGED <<params, args, bProtected, retc, count, top, after, error,
                   result, invoked, callee>>

\* count += lua_gettop(L) - top;
\* if (!bProtected && r.mError != 0) luaL_error(L, r.mError);
StructuralFatal ==
    /\ pc = "parsed"
    /\ ~bProtected /\ r.mError # NoError
    /\ count' = count + lua_gettop(r) - top
    /\ \E where \in {"", "chunk:1: "} :
          /\ r' = PushValue(r, StrV(where \o r.mError))
          /\ raised' = [how |-> "lua_error", msg |-> where \o r.mError]
    /\ pc' = "fatal"
    /\ UNCHANGED <<peer, box>>
    /\ UNCHANGED <<params, args, bProtected, retc, top, after, error, result, invoked, callee>>

\* the step to the call as it would be without the luaL_error of line 297
ParsedDespiteError ==
    /\ pc = "parsed"
    /\ count' = count + lua_gettop(r) - top
    /\ pc' = "call"
    /\ UNCHANGED <<peer, box>>
    /\ UNCHANGED <<params, args, bProtected, retc, top, after, r, error, raised,
                   result, invoked, callee>>
Parsed ==
    /\ pc = "parsed"
    /\ ~(~bProtected /\ r.mError # NoError)
    /\ count' = count + lua_gettop(r) - top
    /\ pc' = "call"
    /\ UNCHANGED <<peer, box>>
    /\ UNCHANGED <<params, args, bProtected, retc, top, after, r, error, raised,
                   result, invoked, callee>>

\* int after = lua_gettop(L) - count - 1;
After == lua_gettop(r) - count - 1

\* if (r.mError != 0 || ...): the recorded error is the one to throw
ProtectedError ==
    /\ pc = "call" /\ bProtected
    /\ r.mError # NoError
    /\ after' = After
    /\ error' = r.mError
    /\ pc' = "restore"
    /\ UNCHANGED <<peer, box>>
    /\ UNCHANGED <<params, args, bProtected, retc, count, top, r, raised, result,
                   invoked, callee>>

\* the protected call as it would be without `r.mError != 0 ||` in line 307
ProtectedCallDespiteError ==
    /\ pc = "call" /\ bProtected
    /\ after' = After
    /\ invoked' = invoked + 1
    /\ \E m \in {PCall_EF(r, count, retc, callee)} :
          LET msg == luaL_optstring(m, "Caught non-string error")
          IN  IF m.status = 0
              THEN /\ r' = m
                   /\ pc' = "return"
                   /\ UNCHANGED <<error, raised>>
              ELSE IF msg.err = NoError
              THEN /\ r' = m
                   /\ error' = msg.s
                   /\ pc' = "restore"
                   /\ UNCHANGED raised
              ELSE /\ r' = PushValue(m, StrV(msg.err))
                   /\ raised' = [how |-> "lua_error", msg |-> msg.err]
                   /\ pc' = "fatal"
                   /\ UNCHANGED error
    /\ UNCHANGED <<peer, box>>
    /\ UNCHANGED <<params, args, bProtected, retc, count, top, result, callee>>
\* ... || PCall_EF(L, count, retc) != 0
ProtectedCall ==
    /\ pc = "call" /\ bProtected
    /\ r.mError = NoError
    /\ after' = After
    /\ invoked' = invoked + 1
    /\ \E m \in {PCall_EF(r, count, retc, callee)} :
          LET msg == luaL_optstring(m, "Caught non-string error")
          IN  IF m.status = 0
              THEN /\ r' = m
                   /\ pc' = "return"
                   /\ UNCHANGED <<error, raised>>
              ELSE IF msg.err = NoError
              THEN /\ r' = m
                   /\ error' = msg.s
                   /\ pc' = "restore"
                   /\ UNCHANGED raised
              ELSE /\ r' = PushValue(m, StrV(msg.err))
                   /\ raised' = [how |-> "lua_error", msg |-> msg.err]
                   /\ pc' = "fatal"
                   /\ UNCHANGED error
    /\ UNCHANGED <<peer, box>>
    /\ UNCHANGED <<params, args, bProtected, retc, count, top, result, callee>>

\* lua_settop(L, after);
Restore ==
    /\ pc = "restore"
    /\ r' = SetTop(r, after)
    /\ pc' = "throw"
    /\ UNCHANGED <<peer, box>>
    /\ UNCHANGED <<params, args, bProtected, retc, count, top, after, error,
                   raised, result, invoked, callee>>

\* throw error;
Throw ==
    /\ pc = "throw"
    /\ raised' = [how |-> "throw", msg |-> error]
    /\ pc' = "thrown"
    /\ UNCHANGED <<peer, box>>
    /\ UNCHANGED <<params, args, bProtected, retc, count, top, after, r, error,
                   result, invoked, callee>>

\* else lua_call(L, count, retc): an error of the callee is not intercepted
UnprotectedCall ==
    /\ pc = "call" /\ ~bProtected
    /\ after' = After
    /\ invoked' = invoked + 1
    /\ LET st == r.mL.stack
              fpos == Len(st) - count
              o == Callee(st[fpos], callee)
          IN  IF o.ok
              THEN /\ r' = [r EXCEPT !.mL.stack =
                                SubSeq(st, 1, fpos - 1) \o Adjust(o.res, retc)]
                   /\ pc' = "return"
                   /\ UNCHANGED raised
              ELSE /\ r' = PushValue(r, o.e)
                   /\ raised' = [how |-> "lua_error",
                                 msg |-> IF o.e.t = "string" THEN o.e.s ELSE o.e.t]
                   /\ pc' = "fatal"
    /\ UNCHANGED <<peer, box>>
    /\ UNCHANGED <<params, args, bProtected, retc, count, top, error, result, callee>>

\* return lua_gettop(L) - after;
Return ==
    /\ pc = "return"
    /\ result' = lua_gettop(r) - after
    /\ pc' = "returned"
    /\ UNCHANGED <<peer, box>>
    /\ UNCHANGED <<params, args, bProtected, retc, count, top, after, r, error,
                   raised, invoked, callee>>

Next ==
    \/ ReadMore
    \/ ReadStop
    \/ ReadRaise
    \/ StructuralFatal
    \/ Parsed
    \/ ProtectedError
    \/ ProtectedCall
    \/ Restore
    \/ Throw
    \/ UnprotectedCall
    \/ Return

-----------------------------------------------------------------------------
(* The calls of the model: format strings, argument lists and Lua states *)

\* the directives that read a variadic argument
ArgToks == {"a", "r", "b", "f", "i", "n", "s", "u", "U", "g", "C"}

\* the values the caller may pass for a directive: stack indices, booleans,
\* a function, integers, a number, a string or null, a pointer or null, a name
ArgDom(tok) ==
    CASE tok \in {"a", "r"} -> {-2, -1, 1}
      [] tok \in {"b", "C"} -> {0, 1}
      [] tok = "f" -> {1}
      [] tok = "i" -> {3, 4}
      [] tok = "n" -> {5}
      [] tok = "s" -> {0, 1}
      [] tok \in {"u", "U"} -> {0, 8}
      [] tok = "g" -> {1, 2, 4}

\* the same with one integer only
LeanDom(tok) == IF tok = "i" THEN {3} ELSE ArgDom(tok)

\* one argument of the right kind for each argument-reading directive, in order
RECURSIVE ArgLists(_, _)
ArgLists(f, lean) ==
    IF f = <<>> THEN {<<>>}
    ELSE LET rest == ArgLists(Tail(f), lean)
         IN  IF Head(f) \in ArgToks
             THEN {<<a>> \o t : a \in IF lean THEN LeanDom(Head(f))
                                      ELSE ArgDom(Head(f)),
                               t \in rest}
             ELSE rest

RECURSIVE SeqsUpTo(_, _)
SeqsUpTo(A, n) ==
    IF n = 0 THEN {<<>>}
    ELSE LET S == SeqsUpTo(A, n - 1)
         IN  S \cup {Append(q, a) : q \in S, a \in A}

ScalarAlphabet ==
    {"a", "r", "b", "T", "F", "f", "i", "n", "s", "u", "U", "0", "g", "C", " ", "x"}

TableAlphabet == {"{", "}", "K", "C", "i"}

\* every string of scalar directives, conditions, blanks and a bad character
ScalarFormats == SeqsUpTo(ScalarAlphabet, MaxLen)

\* every string that opens a table and goes on with table structure
TableFormats == {<<"{">> \o b : b \in SeqsUpTo(TableAlphabet, MaxTable)}

\* the same, shorter, with a directive that fails on a null pointer
BodyFormats == {<<"{">> \o b : b \in SeqsUpTo(TableAlphabet \cup {"U"}, MaxBody)}

\* one key/value pair in a table, every directive as key, also under a condition
KeyFormats ==
    {<<"{", "K", k, v, "}">> : k \in ScalarAlphabet \cup {"{", "K"},
                               v \in {"i", "0", "C", "}"}}
    \cup {<<"{", "C", "K", k, "i", "}">> : k \in {"0", "a", "u", "g", "i"}}

\* a table of up to MaxPairs key/value pairs: a string or an integer as key,
\* a string, an integer or an empty table as value; written with and without
\* blanks between the tokens
RECURSIVE PairBodies(_)
PairBodies(n) ==
    IF n = 0 THEN {<<>>}
    ELSE LET S == PairBodies(n - 1)
         IN  S \cup {q \o <<"K", k>> \o v :
                        q \in S, k \in {"s", "i"},
                        v \in {<<"s">>, <<"i">>, <<"{", "}">>}}

RECURSIVE Spaced(_)
Spaced(f) ==
    IF Len(f) <= 1 THEN f ELSE <<Head(f), " ">> \o Spaced(Tail(f))

PairFormats ==
    LET tight == {<<"{">> \o b \o <<"}">> : b \in PairBodies(MaxPairs)}
    IN  tight \cup {Spaced(f) : f \in tight}

\* the arguments of such a call: two strings, two integers
PairDom(tok) == IF tok = "s" THEN {1, 2} ELSE {3, 4}

RECURSIVE PairArgLists(_)
PairArgLists(f) ==
    IF f = <<>> THEN {<<>>}
    ELSE LET rest == PairArgLists(Tail(f))
         IN  IF Head(f) \in ArgToks
             THEN {<<a>> \o t : a \in PairDom(Head(f)), t \in rest}
             ELSE rest

\* the strings the calls of the C++ sources pass, and close ones
CallFormats ==
    {<<>>, <<"i">>, <<"s", "i">>, <<"a">>, <<"g">>, <<"U">>, <<"{", "}">>,
     <<"i", " ", "i", " ", "s">>, <<"C", " ", "s">>}

\* the ways the target may behave once called
Outcomes ==
    {[ok |-> TRUE, res |-> [i \in 1..n |-> NumV(i)], e |-> NilV, frames |-> 0,
      level |-> l] : n \in 0..MaxRes, l \in {0}}
    \cup {[ok |-> FALSE, res |-> <<>>, e |-> e, frames |-> 1 + l, level |-> l] :
            e \in {StrV("boom"), NumV(7), NilV, BoolV(FALSE), TableV(NamespaceId),
                   UdV(8), FuncV(1)},
            l \in 0..1}

\* a Lua state at the call: the stack below the target, the target, the
\* arguments already pushed, whether ErrorFunc is cached already, and what the
\* target will do
Envs(prots, pres, targets, cnts, retcs, cached, outs) ==
    [prot : prots, pre : pres, target : targets, cnt : cnts, retc : retcs,
     cached : cached, callee : outs]

AllEnvs ==
    Envs(BOOLEAN, {<<>>, <<NumV(9), NilV>>}, {FuncV(1)}, {<<>>}, {LUA_MULTRET},
         {FALSE}, Outcomes)
    \cup Envs(BOOLEAN, {<<NilV>>}, {FuncV(1), NilV}, {<<TableV(NamespaceId)>>},
              {1}, {TRUE}, Outcomes)

FewEnvs ==
    Envs(BOOLEAN, {<<NilV, NumV(9)>>}, {FuncV(1)}, {<<>>}, {LUA_MULTRET}, {FALSE},
         {[ok |-> TRUE, res |-> <<NumV(1)>>, e |-> NilV, frames |-> 0, level |-> 0]})

\* Reader r(args, L, params, top - count);
Reader(L, t) ==
    [mArgs |-> 0, mL |-> L, mError |-> NoError, mParams |-> 1, mHeight |-> 0,
     mTop |-> t, mInKey |-> FALSE, mInValue |-> FALSE, mShouldSkip |-> FALSE,
     ok |-> TRUE, lerr |-> NoError, ub |-> FALSE, status |-> 0, log |-> <<>>,
     errAt |-> [set |-> FALSE, mL |-> L, mArgs |-> 0, err |-> NoError]]

\* the whole loop of line 293
RECURSIVE Marshal(_)
Marshal(m) ==
    Only({ IF Raised(e) \/ ~e.ok THEN e ELSE Marshal([e EXCEPT !.mParams = @ + 1])
           : e \in {ReadElement(m)} })

\* CallCore is entered with the target and `count` arguments on the stack;
\* calls whose marshaling would break the contract of the Lua API (an index
\* that is no stack slot, a raw store into a value that is no table) are
\* left out: their behaviour is undefined
InitWithArgs(F, E, dom) ==
    \E f \in F, e \in E :
        /\ params = f
        /\ \E a \in (IF dom = "pairs" THEN PairArgLists(f)
                    ELSE ArgLists(f, dom = "lean")) : args = a
        /\ bProtected = e.prot
        /\ retc = e.retc
        /\ callee = e.callee
        /\ count = Len(e.cnt)
        /\ top = Len(e.pre) + 1 + Len(e.cnt)
        /\ after = 0
        /\ r = Reader([stack |-> e.pre \o <<e.target>> \o e.cnt,
                       heap |-> IF e.cached
                                THEN [InitHeap EXCEPT ![RegistryId] =
                                        {[k |-> ErrorFuncKey, v |-> ErrorFuncV]}]
                                ELSE InitHeap],
                      top - count)
        /\ error = ""
        /\ raised = NotRaised
        /\ result = 0
        /\ invoked = 0
        /\ pc = IF f = <<>> THEN "call" ELSE "parse"
        /\ peer = [pc |-> "none"]
        /\ box = [pc |-> "none"]
        /\ ~Marshal(r).ub

InitWith(F, E, lean) == InitWithArgs(F, E, IF lean THEN "lean" ELSE "all")

Init ==
    \/ InitWith(ScalarFormats, FewEnvs, FALSE)
    \/ InitWith(BodyFormats, FewEnvs, TRUE)
    \/ InitWith(KeyFormats, FewEnvs, TRUE)
    \/ InitWith(CallFormats, AllEnvs, FALSE)

InitTable ==
    \/ InitWith(TableFormats, FewEnvs, TRUE)
    \/ InitWith(CallFormats, AllEnvs, FALSE)

SpecTable == InitTable /\ [][Next]_vars

\* calls that build one table of key/value pairs
InitPairs ==
    \/ InitWithArgs(PairFormats, FewEnvs, "pairs")
    \/ InitWith(CallFormats, AllEnvs, FALSE)

SpecPairs == InitPairs /\ [][Next]_vars

\* one flat table: integers, nils, pointers and strings as elements, also
\* under a condition or as a key/value pair
ElemFormats ==
    {<<"{">> \o b \o <<"}">> :
        b \in SeqsUpTo({"i", "0", "u", "s", "C", "K"}, MaxBody)}

InitElems ==
    \/ InitWith(ElemFormats, FewEnvs, TRUE)
    \/ InitWith(CallFormats, AllEnvs, FALSE)

SpecElems == InitElems /\ [][Next]_vars

Spec == Init /\ [][Next]_vars

-----------------------------------------------------------------------------
(* Ends of CallCore *)

Thrown == pc = "thrown"
Fatal == pc = "fatal"
Returned == pc = "returned"

\* the tokens of the format string that are no blanks, and the argument-reading
\* ones among the positions lo..hi
Directives(lo, hi) == {p \in lo..hi : p <= Len(params) /\ ~IsSpace(params[p])}
ArgDirectives(lo, hi) == {p \in Directives(lo, hi) : params[p] \in ArgToks}

ScalarToks == {"b", "T", "F", "f", "i", "n", "s", "u", "U", "0", "g"}
OnlyTokens(S) == \A p \in 1..Len(params) : params[p] \in S
LogEntries == {r.log[i] : i \in 1..Len(r.log)}

-----------------------------------------------------------------------------
(* C1 *)

\* C1: a protected call that fails leaves the stack at its pre-call height (the
\* height below the target and its already-pushed arguments), and one that
\* succeeds leaves it at the pre-call height plus the returned result count.
C1_ProtectedCallBalanced ==
    bProtected =>
        /\ (Thrown \/ Fatal) => Height(r) = PreHeight
        /\ Returned => Height(r) = PreHeight + result

-----------------------------------------------------------------------------
(* C2 *)

\* C2: in protected mode every failure reaches the caller as one thrown string,
\* thrown only after the stack was cut back to the pre-call height, and nothing
\* leaves through the unprotected error path (lua_error).
C2_ProtectedFailuresAreThrown ==
    bProtected =>
        /\ ~Fatal
        /\ pc \in {"throw", "thrown"} => Height(r) = PreHeight
        /\ Thrown => raised.how = "throw"

-----------------------------------------------------------------------------
(* The grammar of the format string, read off the string alone *)

ElementToks == ScalarToks \cup {"a", "r"}

\* the directive before position p, 0 if there is none
PrevDirective(p) ==
    IF Directives(1, p - 1) = {} THEN 0
    ELSE CHOOSE q \in Directives(1, p - 1) : \A o \in Directives(1, p - 1) : o <= q

\* braces opened and not closed before position p
RECURSIVE OpenAt(_)
OpenAt(p) ==
    IF p <= 1 THEN 0
    ELSE OpenAt(p - 1) + (CASE params[p - 1] = "{" -> 1
                            [] params[p - 1] = "}" -> -1
                            [] OTHER -> 0)

\* every `}` closes an open `{` and no `{` is left open
Balanced ==
    /\ \A p \in 1..Len(params) + 1 : OpenAt(p) >= 0
    /\ OpenAt(Len(params) + 1) = 0

\* ItemEnd(p, inTable): the last position of the well-formed element that starts
\* at p (a scalar, a table literal, a condition with its element, and inside a
\* table a key/value pair); KeyValueEnd(p): the same for a key or a value, which
\* is a scalar or a table literal; TableEnd(p): the `}` that closes the table
\* whose items start at p.  0 where there is no such element.
RECURSIVE ItemEnd(_, _), KeyValueEnd(_), TableEnd(_)
ItemEnd(p0, inTable) ==
    LET p == SkipSpace(p0)
        c == CharAt(p)
    IN  CASE c \in ElementToks -> p
          [] c = "{" -> TableEnd(p + 1)
          [] c = "C" -> ItemEnd(p + 1, inTable)
          [] c = "K" /\ inTable ->
                LET k == KeyValueEnd(p + 1)
                IN  IF k = 0 THEN 0 ELSE KeyValueEnd(k + 1)
          [] OTHER -> 0

KeyValueEnd(p0) ==
    LET p == SkipSpace(p0)
        c == CharAt(p)
    IN  CASE c \in ElementToks -> p
          [] c = "{" -> TableEnd(p + 1)
          [] OTHER -> 0

TableEnd(p0) ==
    LET p == SkipSpace(p0)
    IN  IF CharAt(p) = "}" THEN p
        ELSE LET e == ItemEnd(p, TRUE)
             IN  IF e = 0 THEN 0 ELSE TableEnd(e + 1)

\* the whole string is a sequence of well-formed elements
RECURSIVE ElementsFrom(_)
ElementsFrom(p) ==
    IF SkipSpace(p) > Len(params) THEN TRUE
    ELSE LET e == ItemEnd(p, FALSE)
         IN  e # 0 /\ ElementsFrom(e + 1)
WellFormed == ElementsFrom(1)

\* every `K` before position p is followed by something that can be a key
KeysBefore(p) ==
    \A q \in 1..p - 1 :
        params[q] = "K" => CharAt(SkipSpace(q + 1)) \in ElementToks \cup {"{"}

\* the token at p is the key, or the value, of a `K`
DirectKey(p) == PrevDirective(p) # 0 /\ params[PrevDirective(p)] = "K"
DirectValue(p) ==
    \E q \in 1..p - 1 :
        /\ params[q] = "K"
        /\ KeyValueEnd(q + 1) # 0
        /\ SkipSpace(KeyValueEnd(q + 1) + 1) = p

-----------------------------------------------------------------------------
(* C3 *)

\* C3: reading a well-formed, balanced table literal that is not suppressed,
\* from its `{` to its matching `}`, succeeds, ends on that `}` and grows the
\* stack by exactly one.
C3_TableGrowsStackByOne ==
    \A e \in LogEntries :
        (e.tok = "{" /\ ~e.skip /\ TableEnd(e.pos + 1) # 0) =>
            /\ e.ret
            /\ e.end = TableEnd(e.pos + 1)
            /\ e.h1 = e.h0 + 1

-----------------------------------------------------------------------------
(* C4 *)

\* the key read by this call is nil
NilKeyed(e) ==
    /\ DirectKey(e.pos)
    /\ \/ e.tok = "0"
       \/ e.tok \in {"a", "r"} /\ args[e.ap0 + 1] = 1 /\ r.mL.stack[1] = NilV
       \/ e.tok = "u" /\ args[e.ap0 + 1] = 0
       \/ e.tok = "g" /\ args[e.ap0 + 1] = 2

\* C4: whichever way the key after `K` comes to be nil, reading the pair records
\* a structural error and leaves every table as it was.
C4_NilKeyRejected ==
    \A k \in LogEntries :
        (k.tok = "K" /\ \E e \in LogEntries :
                            NilKeyed(e) /\ PrevDirective(e.pos) = k.pos) =>
            /\ k.err1 # NoError
            /\ k.heap1 = k.heap0

-----------------------------------------------------------------------------
(* C5 *)

\* C5: a `C` whose condition is false, standing where an element may stand
\* (not as the key or the value of a `K`) and followed by a well-formed element,
\* reads exactly the arguments of that one element, pushes nothing, and ends on
\* the last token of the element.
C5_FalseConditionSkipsOneElement ==
    \A e \in LogEntries :
        ( /\ e.tok = "C" /\ args[e.ap0 + 1] = 0
          /\ KeysBefore(e.pos) /\ ~DirectKey(e.pos) /\ ~DirectValue(e.pos)
          /\ ItemEnd(e.pos + 1, OpenAt(e.pos) > 0) # 0 ) =>
            /\ e.ret
            /\ e.end = ItemEnd(e.pos + 1, OpenAt(e.pos) > 0)
            /\ e.ap1 = e.ap0 + 1 + Cardinality(ArgDirectives(e.pos + 1, e.end))
            /\ e.h1 = e.h0

-----------------------------------------------------------------------------
(* C6 *)

BraceError == r.mError \in {"Unopened table", "Unclosed table"}

\* C6, the half about balanced strings: a well-formed string with balanced
\* braces, also one where a nested table is a `K` value or is suppressed by a
\* false `C`, parses without a brace error.
C6_BalancedHasNoBraceError ==
    (pc = "parsed" /\ WellFormed /\ Balanced) => ~BraceError

-----------------------------------------------------------------------------
(* C7 *)

\* C7: once the first structural error is recorded no further token is read,
\* no further argument is consumed, nothing more is pushed or stored, and the
\* error reported in the end is that first one.
C7_FirstErrorHalts ==
    /\ \A e \in LogEntries : e.err0 = NoError
    /\ pc = "parse" => r.mError = NoError
    /\ r.errAt.set =>
          /\ r.mError = r.errAt.err
          /\ r.mArgs = r.errAt.mArgs
          /\ r.mL.heap = r.errAt.mL.heap
          /\ pc = "parsed" => r.mL.stack = r.errAt.mL.stack
          /\ Thrown => raised.msg = r.errAt.err
          /\ Fatal => raised.msg \in {r.errAt.err, "chunk:1: " \o r.errAt.err}

\* a format that records a second error after the first: the table left open
\* by the failing element reports "Unclosed table" too
C7_Witness ==
    /\ pc = "parsed"
    /\ r.errAt.set /\ r.errAt.err = "Null userdata"
    /\ \E e \in LogEntries : e.tok = "{" /\ ~e.ret
    /\ \E p \in 1..Len(params) : p > r.mParams /\ params[p] \in ArgToks

-----------------------------------------------------------------------------
(* C8 *)

\* C8 as stated: in protected mode, with a structural error recorded, the
\* target is still invoked before the stack is restored and the error thrown.
C8_InvokedDespiteError ==
    (bProtected /\ r.mError # NoError /\ pc \in {"restore", "throw", "thrown"})
        => invoked >= 1

\* C8 amended: in protected mode, with a structural error recorded, the target
\* is not invoked; the stack is restored and the recorded error is thrown.
C8_ErrorSkipsInvocation ==
    (bProtected /\ r.mError # NoError) =>
        /\ invoked = 0
        /\ pc \in {"parsed", "call", "restore", "throw", "thrown"}
        /\ Thrown => raised = [how |-> "throw", msg |-> r.mError]
                     /\ Height(r) = PreHeight

C8_Witness ==
    Thrown /\ bProtected /\ r.mError # NoError /\ invoked = 0
    /\ Len(r.log) > 1

-----------------------------------------------------------------------------
(* C9 *)

\* C9: in unprotected mode a structural error is raised as a fatal error when
\* parsing has stopped, before the invocation: the target is never invoked.
C9_UnprotectedErrorIsFatal ==
    (~bProtected /\ r.mError # NoError) =>
        /\ invoked = 0
        /\ pc \in {"parsed", "fatal"}
        /\ Fatal => raised.how = "lua_error"
                    /\ raised.msg \in {r.mError, "chunk:1: " \o r.mError}

C9_Witness ==
    Fatal /\ ~bProtected /\ r.mError # NoError /\ invoked = 0
    /\ callee.ok /\ r.mL.stack[r.mTop].t = "function"

-----------------------------------------------------------------------------
(* C10 *)

ScalarEntries == {e \in LogEntries : e.tok \in ScalarToks}

\* the value the directive table names for a directive and its argument
Named(tok, a) ==
    CASE tok = "b" -> BoolV(a # 0)
      [] tok = "T" -> BoolV(TRUE)
      [] tok = "F" -> BoolV(FALSE)
      [] tok = "f" -> FuncV(a)
      [] tok \in {"i", "n"} -> NumV(a)
      [] tok = "s" -> IF a = 0 THEN NilV ELSE StrV(StrPool[a])
      [] tok \in {"u", "U"} -> IF a = 0 THEN NilV ELSE UdV(a)
      [] tok = "0" -> NilV
      [] tok = "g" -> CASE a = 1 -> NumV(7)
                        [] a = 3 -> NumV(5)
                        [] OTHER -> NilV

\* the directive stops marshaling instead of pushing: `U` given a null pointer,
\* `g` given a dotted name whose path leads through a value that is no table
Stops(e) ==
    /\ ~e.skip
    /\ \/ e.tok = "U" /\ args[e.ap0 + 1] = 0
       \/ e.tok = "g" /\ args[e.ap0 + 1] = 4

\* the values pushed by the scalar directives read so far, in reading order
PushedInOrder ==
    LET sel == SelectSeq(r.log, LAMBDA e : e.tok \in ScalarToks /\ e.h1 > e.h0)
    IN  [i \in 1..Len(sel) |-> sel[i].v]

-----------------------------------------------------------------------------
(* C11 *)

Tokens == SelectSeq(params, LAMBDA c : ~IsSpace(c))

\* PairsFrom(t, a): the key/value pairs that the tokens t, read after the `{`
\* of a table of pairs, spell with the arguments a; a table value is written
\* TableV(0).  ok is FALSE if t is no list of pairs closed by `}`.
RECURSIVE PairsFrom(_, _)
PairsFrom(t, a) ==
    IF t = <<"}">> THEN [ok |-> TRUE, pairs |-> {}, n |-> 0]
    ELSE IF Len(t) >= 4 /\ t[1] = "K" /\ t[2] \in {"s", "i"} /\ t[3] \in {"s", "i"}
    THEN LET rest == PairsFrom(SubSeq(t, 4, Len(t)), SubSeq(a, 3, Len(a)))
         IN  [ok |-> rest.ok /\ Len(a) >= 2,
              pairs |-> rest.pairs \cup {[k |-> Named(t[2], a[1]),
                                          v |-> Named(t[3], a[2])]},
              n |-> rest.n + 1]
    ELSE IF Len(t) >= 5 /\ t[1] = "K" /\ t[2] \in {"s", "i"}
            /\ t[3] = "{" /\ t[4] = "}"
    THEN LET rest == PairsFrom(SubSeq(t, 5, Len(t)), SubSeq(a, 2, Len(a)))
         IN  [ok |-> rest.ok /\ Len(a) >= 1,
              pairs |-> rest.pairs \cup {[k |-> Named(t[2], a[1]), v |-> TableV(0)]},
              n |-> rest.n + 1]
    ELSE [ok |-> FALSE, pairs |-> {}, n |-> 0]

PairLiteral ==
    IF Len(Tokens) >= 2 /\ Tokens[1] = "{"
    THEN PairsFrom(Tail(Tokens), args)
    ELSE [ok |-> FALSE, pairs |-> {}, n |-> 0]

\* n pairs with n distinct keys that are not nil
DistinctKeys ==
    /\ Cardinality({e.k : e \in PairLiteral.pairs}) = PairLiteral.n
    /\ \A e \in PairLiteral.pairs : e.k # NilV

\* the entries of a table, an empty table as value written TableV(0)
EntriesOf(heap, id) ==
    {[k |-> e.k,
      v |-> IF e.v.t = "table" /\ heap[e.v.n] = {} THEN TableV(0) ELSE e.v]
        : e \in heap[id]}

\* C11: a table literal of n key/value pairs with distinct non-nil keys is
\* marshaled without error into one table on top of the stack, the stack one
\* higher, whose entries are exactly the n pairs.
C11_PairsMakeOneTable ==
    (pc = "parsed" /\ PairLiteral.ok /\ DistinctKeys) =>
        /\ r.mError = NoError
        /\ Height(r) = top + 1
        /\ r.mL.stack[Height(r)].t = "table"
        /\ EntriesOf(r.mL.heap, r.mL.stack[Height(r)].n) = PairLiteral.pairs

-----------------------------------------------------------------------------
(* C12 *)

\* the calls that read `a` (resp. `r`) with a negative index and pushed a value
NegativeIndexPushes(tok) ==
    {e \in LogEntries : e.tok = tok /\ args[e.ap0 + 1] < 0 /\ e.ret /\ ~e.skip}

\* C12 as stated: `a` with a negative index n pushes the value at T + 1 + n,
\* T the stack height at CallCore entry.
C12_ResolvesAgainstEntryHeight ==
    pc \in {"parse", "parsed"} =>
        \A e \in NegativeIndexPushes("a") :
            e.v = r.mL.stack[top + 1 + args[e.ap0 + 1]]

\* C12 amended: `a` with a negative index n pushes the value at P + 1 + n, P the
\* pre-call height (the height at entry less the target and the `count`
\* arguments already pushed), whatever has been pushed since; `r` pushes the
\* value at C + 1 + n, C the height when the directive is read.
C12_NegativeIndices ==
    pc \in {"parse", "parsed"} =>
        /\ \A e \in NegativeIndexPushes("a") :
              /\ top - count + args[e.ap0 + 1] >= 1
              /\ e.v = r.mL.stack[top - count + args[e.ap0 + 1]]
              /\ e.h1 = e.h0 + 1
        /\ \A e \in NegativeIndexPushes("r") :
              /\ e.h0 + 1 + args[e.ap0 + 1] >= 1
              /\ e.v = r.mL.stack[e.h0 + 1 + args[e.ap0 + 1]]
              /\ e.h1 = e.h0 + 1

\* `a` with a negative index read after another directive has pushed
C12_Witness ==
    /\ pc = "parsed" /\ r.mError = NoError
    /\ \E e \in NegativeIndexPushes("a") : e.h0 > top /\ e.v # NilV

-----------------------------------------------------------------------------
(* C13 *)

\* the target, a function, was invoked and raised an error value that is no
\* text (a target that is nil cannot be called: that error is text)
NonTextFailure ==
    /\ bProtected /\ invoked = 1
    /\ r.mError = NoError
    /\ ~callee.ok /\ callee.e.t \notin {"string", "number"}
    /\ error # "attempt to call a nil value" \o Traceback(callee.level)

\* C13: when the target of a protected call fails with an error value that is
\* not text, the message thrown is "Caught non-string error", thrown with the
\* stack back at the pre-call height.
C13_NonTextErrorGivesMarker ==
    (Thrown /\ NonTextFailure) =>
        /\ raised = [how |-> "throw", msg |-> "Caught non-string error"]
        /\ Height(r) = PreHeight

-----------------------------------------------------------------------------
(* Arg.cpp: the conversions of a Lua value to a C value.  A C integer is    *)
(* kept as the signed 32-bit representative of its bits; a Lua number       *)
(* beyond that range is lo + hi * 2^32.  lua_Integer is ptrdiff_t and long  *)
(* is as wide as a pointer: 32 bits under ILP32, 64 under LP64.             *)

FullUdV(p) == [t |-> "userdata", n |-> p]
BigV(hi, lo) == [t |-> "number", n |-> lo, hi |-> hi]
IsBig(v) == "hi" \in DOMAIN v

INT_MIN == -2147483647 - 1

\* Member_Reg::Type, and a value outside the enumeration
Member_Reg ==
    [ePointer |-> 0, eSChar |-> 1, eSShort |-> 2, eSLong |-> 3, eSInt |-> 4,
     eUChar |-> 5, eUShort |-> 6, eULong |-> 7, eUInt |-> 8, eString |-> 9,
     eBoolean |-> 10, eFloat |-> 11, eDouble |-> 12, eBad |-> 13]

\* the conversion as it would be if every narrow type were unsigned
NarrowNoSign(x, w, signed) == x % (2 ^ w)

\* the conversion of an int to a narrower integer type of w bits
Narrow(x, w, signed) ==
    LET u == x % (2 ^ w)
    IN  IF signed /\ u >= 2 ^ (w - 1) THEN u - 2 ^ w ELSE u

\* the strings of the model that lua_tonumber converts, with their numbers
Str2Number(str) == IF str = "7" THEN {7} ELSE {}

\* luaL_typerror through luaL_argerror, in a function called as a metamethod
TagError(narg, tname, v) ==
    "bad argument #" \o ToString(narg) \o " to '?' (" \o tname \o " expected, got "
    \o TypeName(v) \o ")"

\* luaL_checkint(L, 3): the int outcomes, or the error raised.  lua_tointeger
\* converts the double to lua_Integer and the result is cast to int: a number
\* beyond lua_Integer has an undefined conversion (the low bits or INT_MIN on
\* the builds there are), one within it keeps its low 32 bits
luaL_checkint(v, abi) ==
    IF v.t = "number"
    THEN [err |-> NoError,
          vals |-> IF IsBig(v) /\ abi = "ILP32" THEN {v.n, INT_MIN} ELSE {v.n}]
    ELSE IF v.t = "string" /\ Str2Number(v.s) # {}
    THEN [err |-> NoError, vals |-> Str2Number(v.s)]
    ELSE [err |-> TagError(3, "number", v), vals |-> {}]

\* the nearest multiple of ulp, ties to the even multiple
RoundTo(x, ulp) ==
    LET q == x \div ulp
        rem == x % ulp
    IN  IF 2 * rem < ulp \/ (2 * rem = ulp /\ q % 2 = 0) THEN q * ulp
        ELSE (q + 1) * ulp

\* float(x) for an integral double: 24 bits of significand (the numbers
\* beyond int of the model lie between 2^31 and 2^32, where floats are 256 apart)
RECURSIVE FloatUlp(_, _)
FloatUlp(mag, ulp) == IF mag < 16777216 * ulp THEN ulp ELSE FloatUlp(mag \div 2, ulp) * 2
Float(v) ==
    IF IsBig(v)
    THEN LET lo == RoundTo(v.n, 256)
         IN  IF lo = 0 /\ v.n < 0 THEN BigV(v.hi + 1, 0) ELSE BigV(v.hi, lo)
    ELSE IF v.n = INT_MIN THEN v
    ELSE LET mag == IF v.n < 0 THEN -v.n ELSE v.n
         IN  NumV(RoundTo(v.n, FloatUlp(mag, 1)))

\* luaL_checknumber(L, 3)
luaL_checknumber(v) ==
    IF v.t = "number" THEN [err |-> NoError, vals |-> {v}]
    ELSE IF v.t = "string" /\ Str2Number(v.s) # {}
    THEN [err |-> NoError, vals |-> {NumV(x) : x \in Str2Number(v.s)}]
    ELSE [err |-> TagError(3, "number", v), vals |-> {}]

\* Lua::UD
UD(v, index) ==
    IF v.t \in {"userdata", "lightuserdata"} THEN [err |-> NoError, vals |-> {v.n}]
    ELSE [err |-> "Argument " \o ToString(index) \o " is not a userdata", vals |-> {}]

-----------------------------------------------------------------------------
(* Peer.cpp: the __index and __newindex closures of a bound type.  The      *)
(* closure runs on a machine m: its stack and heap (m.mL), its upvalues     *)
(* (m.up), native memory as cells by address (m.mem), the strings Lua has   *)
(* freed (m.freed), and a record of what it did: the overrides it called    *)
(* (m.calls) and the cells it read and wrote (m.reads, m.writes).           *)

\* the data indices and the descriptor indices
Peer == [eDescriptors |-> 1, eBoxed |-> 2, eDOffset |-> 1, eDName |-> 2, eDType |-> 3]

\* lua_gettable(L, t): the key on top is replaced by t[key]
lua_gettable(m, tv) ==
    LET h == Height(m)
    IN  [m EXCEPT !.mL.stack[h] = RawGet(m.mL.heap[tv.n], m.mL.stack[h])]

\* lua_rawgeti(L, t, n)
lua_rawgeti(m, tv, n) == PushValue(m, RawGet(m.mL.heap[tv.n], NumV(n)))

\* lua_replace(L, 1)
lua_replace(m, idx) ==
    LET h == Height(m)
    IN  SetTop([m EXCEPT !.mL.stack[idx] = m.mL.stack[h]], h - 1)

\* lua_call(L, nargs, nres): the callee is recorded with its arguments; it
\* returns values, or raises an error that nothing here intercepts.  What an
\* override itself does to native memory is outside the closure.
lua_call(m, nargs, nres, ov) ==
    LET st == m.mL.stack
        fpos == Len(st) - nargs
        done == [m EXCEPT !.calls = Append(@, [f |-> st[fpos],
                                               args |-> SubSeq(st, fpos + 1, Len(st))])]
    IN  IF ov.ok
        THEN [done EXCEPT !.mL.stack = SubSeq(st, 1, fpos - 1) \o Adjust(ov.res, nres)]
        ELSE LuaError(done, ov.e)

\* GetFields: offset and type are pushed; the address of the field
GetFields(m) ==
    LET h == Height(m)
        m1 == lua_rawgeti(m, m.mL.stack[h], Peer.eDOffset)
        m2 == lua_rawgeti(m1, m.mL.stack[h], Peer.eDType)
        base == UD(m.mL.stack[1], 1)
        off == luaL_checkint(m1.mL.stack[h + 1], m.abi)
    IN  IF base.err # NoError THEN [m |-> LuaError(m2, base.err), pData |-> 0]
        ELSE IF off.err # NoError THEN [m |-> LuaError(m2, off.err), pData |-> 0]
        ELSE [m |-> m2, pData |-> Only(base.vals) + Only(off.vals)]

\* lua_pushinteger of a C integer: the conversion to lua_Integer.  An unsigned
\* int with its top bit set stays positive only where lua_Integer is wider
PushInteger(m, x, unsigned32) ==
    PushValue(m, IF unsigned32 /\ x < 0 /\ m.abi = "LP64" THEN BigV(1, x) ELSE NumV(x))

\* IndexMember: the machines it may end in.  A string member whose characters
\* Lua has freed is read through a dangling pointer
IndexMember(m0) ==
    LET g == GetFields(m0)
        m == [g.m EXCEPT !.reads = @ \cup {g.pData}]
        type == luaL_checkint(g.m.mL.stack[6], m0.abi)
        c == m0.mem[g.pData]
        T == Member_Reg
    IN  IF Raised(g.m) THEN {g.m}
        ELSE IF type.err # NoError THEN {LuaError(g.m, type.err)}
        ELSE LET ty == Only(type.vals)
             IN  CASE ty = T.ePointer -> {PushValue(m, UdV(c))}
                   [] ty \in {T.eSChar, T.eSShort, T.eSLong, T.eSInt, T.eUChar,
                              T.eUShort, T.eULong} -> {PushInteger(m, c, FALSE)}
                   [] ty = T.eUInt -> {PushInteger(m, c, TRUE)}
                   [] ty \in {T.eFloat, T.eDouble} -> {PushValue(m, c)}
                   [] ty = T.eString ->
                        IF c = NUL THEN {PushValue(m, NilV)}
                        ELSE IF c \in m.freed
                        THEN {PushValue([m EXCEPT !.ub = TRUE], StrV(x)) : x \in {c, ""}}
                        ELSE {PushValue(m, StrV(c))}
                   [] ty = T.eBoolean -> {PushValue(m, BoolV(c # 0))}
                   [] OTHER -> {LuaError(g.m, "Member __index: Bad type")}

\* the function NewIndexMember hands to Set for a member type (sC .. uI, F, D,
\* B, UD of Arg.cpp), applied to the value: the C values it may return, or the
\* error it raises
Convert(ty, v, abi) ==
    LET int == luaL_checkint(v, abi)
        num == luaL_checknumber(v)
        T == Member_Reg
    IN  CASE ty = T.ePointer -> UD(v, 3)
          [] ty = T.eSChar -> [int EXCEPT !.vals = {Narrow(x, 8, TRUE) : x \in @}]
          [] ty = T.eSShort -> [int EXCEPT !.vals = {Narrow(x, 16, TRUE) : x \in @}]
          [] ty = T.eUChar -> [int EXCEPT !.vals = {Narrow(x, 8, FALSE) : x \in @}]
          [] ty = T.eUShort -> [int EXCEPT !.vals = {Narrow(x, 16, FALSE) : x \in @}]
          [] ty \in {T.eSLong, T.eSInt, T.eULong, T.eUInt} -> int
          [] ty = T.eFloat -> [num EXCEPT !.vals = {Float(x) : x \in @}]
          [] ty = T.eDouble -> num
          [] ty = T.eBoolean ->
                IF v.t = "boolean" THEN [err |-> NoError, vals |-> {v.n}]
                ELSE [err |-> TagError(3, "boolean", v), vals |-> {}]

\* Set: *(T *)pData = func(L, 3), for each value func may return
Set(m, pData, conv) ==
    IF conv.err # NoError THEN {LuaError(m, conv.err)}
    ELSE {[m EXCEPT !.mem[pData] = cell, !.writes = @ \cup {pData}] : cell \in conv.vals}

\* NewIndexMember: the machines it may end in.  S(L, 3) turns a number into a
\* string in its stack slot and returns the characters of that string
NewIndexMember(m0) ==
    LET g == GetFields(m0)
        m == g.m
        type == luaL_checkint(m.mL.stack[7], m0.abi)
        v == m.mL.stack[3]
        str == IF v.t = "number" THEN ToString(v.n) ELSE v.s
        T == Member_Reg
    IN  IF Raised(m) THEN {m}
        ELSE IF type.err # NoError THEN {LuaError(m, type.err)}
        ELSE LET ty == Only(type.vals)
             IN  IF ty = T.eString
                 THEN IF v.t \in {"string", "number"}
                      THEN {[m EXCEPT !.mem[g.pData] = str,
                                      !.writes = @ \cup {g.pData},
                                      !.freed = @ \ {str},
                                      !.mL.stack[3] = StrV(str)]}
                      ELSE {LuaError(m, TagError(3, "string", v))}
                 ELSE IF ty \in 0..12
                 THEN Set(m, g.pData, Convert(ty, v, m0.abi))
                 ELSE {LuaError(m, "Member __newindex: Bad type")}

\* Lookup: the object's data is pushed
Lookup(m) ==
    LET bBoxed == RawGet(m.mL.heap[m.up[1].n], NumV(Peer.eBoxed)) = BoolV(TRUE)
        u == UD(m.mL.stack[1], 1)
    IN  IF ~bBoxed THEN PushValue(m, m.mL.stack[1])
        ELSE IF u.err # NoError THEN LuaError(m, u.err)
        ELSE PushValue(m, UdV(m.mem[Only(u.vals)]))

\* the __index closure as it would be without the lookup among the getters
IndexNoGetter(m0, ov) ==
    LET m1 == Lookup(m0)
        m4 == lua_replace(m1, 1)
        m5 == lua_rawgeti(m4, m0.up[1], Peer.eDescriptors)
        m6 == PushValue(m5, m5.mL.stack[2])
        m7 == lua_gettable(m6, m6.mL.stack[3])
    IN  IF Raised(m1) THEN {m1}
        ELSE IF m7.mL.stack[4] # NilV THEN IndexMember(m7)
        ELSE {m7}

\* the __index closure as it would be if it dropped the absent descriptor
\* before returning
IndexPoppingNil(m0, ov) ==
    LET m1 == Lookup(m0)
        m2 == PushValue(m1, m1.mL.stack[2])
        m3 == lua_gettable(m2, m0.up[2])
        viaGetter == lua_call(lua_insert(m3, 1), 3, 1, ov)
        m4 == lua_replace(SetTop(m3, Height(m3) - 1), 1)
        m5 == lua_rawgeti(m4, m0.up[1], Peer.eDescriptors)
        m6 == PushValue(m5, m5.mL.stack[2])
        m7 == lua_gettable(m6, m6.mL.stack[3])
    IN  IF Raised(m1) THEN {m1}
        ELSE IF m3.mL.stack[4] # NilV THEN {viaGetter}
        ELSE IF m7.mL.stack[4] # NilV THEN IndexMember(m7)
        ELSE {SetTop(m7, 3)}

\* Index: the machines the __index closure may end in, each with its one result
\* on top of the stack unless it raised
Index(m0, ov) ==
    LET m1 == Lookup(m0)
        m2 == PushValue(m1, m1.mL.stack[2])
        m3 == lua_gettable(m2, m0.up[2])
        viaGetter == lua_call(lua_insert(m3, 1), 3, 1, ov)
        m4 == lua_replace(SetTop(m3, Height(m3) - 1), 1)
        m5 == lua_rawgeti(m4, m0.up[1], Peer.eDescriptors)
        m6 == PushValue(m5, m5.mL.stack[2])
        m7 == lua_gettable(m6, m6.mL.stack[3])
    IN  IF Raised(m1) THEN {m1}
        ELSE IF m3.mL.stack[4] # NilV THEN {viaGetter}
        ELSE IF m7.mL.stack[4] # NilV THEN IndexMember(m7)
        ELSE {m7}

\* NewIndex: the machines the __newindex closure may end in; it returns nothing
NewIndex(m0, ov) ==
    LET m1 == Lookup(m0)
        m2 == PushValue(m1, m1.mL.stack[2])
        m3 == lua_gettable(m2, m0.up[2])
        viaSetter == lua_call(lua_insert(m3, 1), 4, 0, ov)
        m4 == lua_replace(SetTop(m3, Height(m3) - 1), 1)
        m5 == lua_rawgeti(m4, m0.up[1], Peer.eDescriptors)
        m6 == PushValue(m5, m5.mL.stack[2])
        m7 == lua_gettable(m6, m6.mL.stack[4])
    IN  IF Raised(m1) THEN {m1}
        ELSE IF m3.mL.stack[5] # NilV THEN {viaSetter}
        ELSE IF m7.mL.stack[5] # NilV THEN NewIndexMember(m7)
        ELSE {m7}

\* Lua::BindPeer: the tables the two closures share and own.  Table 1 is the
\* data table, 2 the descriptors by name, 3 the getters, 4 the setters, and
\* 4 + i the descriptor of member i
BindPeer(getters, setters, members, bBoxed) ==
    << {[k |-> NumV(Peer.eDescriptors), v |-> TableV(2)],
        [k |-> NumV(Peer.eBoxed), v |-> BoolV(bBoxed)]},
       {[k |-> StrV(members[i].mName), v |-> TableV(4 + i)] : i \in DOMAIN members},
       {[k |-> StrV(n), v |-> FuncV(10)] : n \in getters},
       {[k |-> StrV(n), v |-> FuncV(20)] : n \in setters} >>
    \o [i \in DOMAIN members |->
           {[k |-> NumV(Peer.eDOffset), v |-> NumV(members[i].mOffset)],
            [k |-> NumV(Peer.eDType), v |-> NumV(members[i].mType)]}]

-----------------------------------------------------------------------------
(* A bound type and the accesses Lua makes to one object of it *)

\* most accesses made to the object
MaxOps == 2

\* the userdata block of the object, and the struct a boxed one points at
HandleAddr == 2000
BoxedAddr == 1000

\* the members described: x of the type under scrutiny, g and s both ints;
\* g also has a getter override and s a setter override, n is no name at all
Members(type) ==
    << [mOffset |-> 0, mName |-> "x", mType |-> type],
       [mOffset |-> 8, mName |-> "g", mType |-> Member_Reg.eSInt],
       [mOffset |-> 16, mName |-> "s", mType |-> Member_Reg.eSInt] >>
Getters == {"g"}
Setters == {"s"}
PeerKeys == {"x", "g", "s", "n"}

StructAddr == IF peer.bBoxed THEN BoxedAddr ELSE HandleAddr
FieldAddr(name) ==
    StructAddr + (CHOOSE d \in {Members(0)[i] : i \in 1..3} : d.mName = name).mOffset

\* the values Lua may assign to a member
WriteDom(key, type) ==
    IF key # "x" THEN {NumV(5)}
    ELSE {NumV(0), NumV(-1), NumV(127), NumV(300), NumV(65536), NumV(16777217),
          StrV("a"), StrV("7"), BoolV(TRUE), NilV, UdV(64), FullUdV(72)}
         \cup (IF type = Member_Reg.eString THEN {} ELSE {BigV(1, INT_MIN)})

\* what an override does when called
Overrides ==
    {[ok |-> TRUE, res |-> <<>>, e |-> ""],
     [ok |-> TRUE, res |-> <<NumV(42), NumV(43)>>, e |-> ""],
     [ok |-> FALSE, res |-> <<>>, e |-> "boom"]}

\* CallCore takes no part in these accesses
CallCoreIdle ==
    /\ pc = "idle" /\ params = <<>> /\ args = <<>> /\ bProtected = FALSE
    /\ retc = 0 /\ count = 0 /\ top = 0 /\ after = 0
    /\ r = Reader([stack |-> <<>>, heap |-> InitHeap], 0)
    /\ error = "" /\ raised = NotRaised /\ result = 0 /\ invoked = 0
    /\ callee = Only(Outcomes)

\* the object right after its construction, bound by BindPeer
InitPeer ==
    /\ CallCoreIdle
    /\ box = [pc |-> "none"]
    /\ \E type \in 0..13, boxed \in BOOLEAN, abi \in {"ILP32", "LP64"} :
        LET base == IF boxed THEN BoxedAddr ELSE HandleAddr
            x0 == CASE type = Member_Reg.eString -> NUL
                    [] type \in {Member_Reg.eFloat, Member_Reg.eDouble} -> NumV(0)
                    [] OTHER -> 0
            fields == (base :> x0) @@ (base + 8 :> 3) @@ (base + 16 :> 4)
        IN  peer = [pc |-> "idle", type |-> type, bBoxed |-> boxed, abi |-> abi,
                    mem |-> IF boxed THEN fields @@ (HandleAddr :> BoxedAddr)
                            ELSE fields,
                    mem0 |-> fields, freed |-> {}, ops |-> 0,
                    stored |-> [k \in {"x", "g", "s"} |-> <<>>],
                    last |-> [op |-> "none", key |-> "", value |-> NilV,
                              calls |-> <<>>, reads |-> {}, writes |-> {},
                              ret |-> <<>>, err |-> NoError, ub |-> FALSE,
                              ov |-> Only(Overrides)]]

\* the machine a closure starts on: its arguments on the stack, its upvalues
Machine(stack, overrides) ==
    [mL |-> [stack |-> stack,
             heap |-> BindPeer(Getters, Setters, Members(peer.type), peer.bBoxed)],
     up |-> <<TableV(1), TableV(overrides)>>, abi |-> peer.abi,
     mem |-> peer.mem, freed |-> peer.freed, calls |-> <<>>, reads |-> {},
     writes |-> {}, ok |-> TRUE, lerr |-> NoError, ub |-> FALSE]

\* what the access leaves behind
Accessed(op, key, value, ov, m, nresults) ==
    [peer EXCEPT
        !.mem = m.mem, !.mem0 = peer.mem, !.freed = m.freed, !.ops = @ + 1,
        !.stored = IF m.writes = {} THEN @ ELSE [@ EXCEPT ![key] = <<value>>],
        !.last = [op |-> op, key |-> key, value |-> value, calls |-> m.calls,
                  reads |-> m.reads, writes |-> m.writes,
                  ret |-> IF Raised(m) THEN <<>>
                          ELSE SubSeq(m.mL.stack, Height(m) - nresults + 1, Height(m)),
                  err |-> m.lerr, ub |-> m.ub, ov |-> ov]]

\* Lua reads object[key]: the __index closure runs and returns 1
PeerIndex ==
    /\ peer.pc = "idle" /\ peer.ops < MaxOps
    /\ \E key \in PeerKeys :
       \E ov \in IF key \in Getters THEN Overrides ELSE {Only(Overrides)} :
       \E m \in Index(Machine(<<FullUdV(HandleAddr), StrV(key)>>, 3), ov) :
           peer' = Accessed("read", key, NilV, ov, m, 1)
    /\ UNCHANGED <<pc, params, args, bProtected, retc, count, top, after, r,
                   error, raised, result, invoked, callee, box>>

\* Lua assigns object[key] = value: the __newindex closure runs and returns 0
PeerNewIndex ==
    /\ peer.pc = "idle" /\ peer.ops < MaxOps
    /\ \E key \in PeerKeys :
       \E value \in WriteDom(key, peer.type) :
       \E ov \in IF key \in Setters THEN Overrides ELSE {Only(Overrides)} :
       \E m \in NewIndex(Machine(<<FullUdV(HandleAddr), StrV(key), value>>, 4), ov) :
           peer' = Accessed("write", key, value, ov, m, 0)
    /\ UNCHANGED <<pc, params, args, bProtected, retc, count, top, after, r,
                   error, raised, result, invoked, callee, box>>

\* Lua's collector frees a string that only a string member still points at
Collect ==
    /\ peer.pc = "idle"
    /\ peer.type = Member_Reg.eString
    /\ peer.mem[FieldAddr("x")] \notin {NUL} \cup peer.freed
    /\ peer' = [peer EXCEPT !.freed = @ \cup {peer.mem[FieldAddr("x")]}]
    /\ UNCHANGED <<pc, params, args, bProtected, retc, count, top, after, r,
                   error, raised, result, invoked, callee, box>>

NextPeer ==
    \/ PeerIndex
    \/ PeerNewIndex
    \/ Collect

SpecPeer == InitPeer /\ [][NextPeer]_vars

-----------------------------------------------------------------------------
(* C14 *)

\* the last access was a read, or a write, of a name that has an override
ReadOverridden == peer.last.op = "read" /\ peer.last.key \in Getters
WriteOverridden == peer.last.op = "write" /\ peer.last.key \in Setters

\* the closure touched no cell of the struct
Untouched ==
    peer.last.reads = {} /\ peer.last.writes = {} /\ peer.mem = peer.mem0

\* the one call the closure made: this function, the handle, the key, the
\* value if there is one, and the address of the struct
CalledOnce(f, value) ==
    /\ Len(peer.last.calls) = 1
    /\ peer.last.calls[1].f = f
    /\ LET a == peer.last.calls[1].args
       IN  /\ Len(a) = 3 + Len(value)
           /\ SubSeq(a, 1, 2 + Len(value)) =
                 <<FullUdV(HandleAddr), StrV(peer.last.key)>> \o value
           /\ a[Len(a)].t \in {"userdata", "lightuserdata"}
           /\ a[Len(a)].n = StructAddr

-----------------------------------------------------------------------------
(* C15 *)

Described == {"x", "g", "s"}

-----------------------------------------------------------------------------
(* C16 *)

FieldType(key) == IF key = "x" THEN peer.type ELSE Member_Reg.eSInt

\* the last access read, through its descriptor, a member that a write through
\* its descriptor had set before
ReadBack ==
    /\ peer.last.op = "read" /\ peer.last.key \in Described
    /\ peer.last.calls = <<>>
    /\ peer.stored[peer.last.key] # <<>>

\* a write through a descriptor leaves the other described members alone
OthersKept ==
    (peer.last.op = "write" /\ peer.last.writes # {}) =>
        \A k \in Described \ {peer.last.key} :
            peer.mem[FieldAddr(k)] = peer.mem0[FieldAddr(k)]

Representable(ty, v) ==
    LET T == Member_Reg
        int(lo, hi) == v.t = "number" /\ ~IsBig(v) /\ v.n >= lo /\ v.n <= hi
    IN  CASE ty = T.ePointer -> v.t = "lightuserdata"
          [] ty = T.eSChar -> int(-128, 127)
          [] ty = T.eSShort -> int(-32768, 32767)
          [] ty \in {T.eSLong, T.eSInt} -> int(INT_MIN, 2147483647)
          [] ty = T.eUChar -> int(0, 255)
          [] ty = T.eUShort -> int(0, 65535)
          [] ty \in {T.eULong, T.eUInt} -> int(0, 2147483647)
          [] ty = T.eFloat -> v.t = "number" /\ Float(v) = v
          [] ty = T.eDouble -> v.t = "number"
          [] ty = T.eString -> v.t = "string"
          [] ty = T.eBoolean -> v.t = "boolean"
          [] OTHER -> FALSE

-----------------------------------------------------------------------------
(* Templates.h: luaT_boxed_set_ref and the hooks built on it, on one handle *)
(* that boxes a pointer to a reference-counted object.  An object is a      *)
(* number from 1, the null pointer is 0.  box.target is the boxed pointer,  *)
(* box.count and box.alive the objects; box.value, box.bCheckTarget and     *)
(* box.fn belong to the call under way or just made, box.target0,           *)
(* box.count0 and box.alive0 are the state it was entered in, and           *)
(* box.relObj, box.relPtr the object it released and the boxed pointer at   *)
(* that moment.                                                             *)

\* objects there are, the most references each has at first, calls made
MaxObjs == 2
MaxCount == 2
MaxCalls == 2
MaxSteps == 3
MaxHandles == 2
MaxStack == 2

\* T::AddRef and T::Release, the methods the template expects of T: the count
\* goes up by one; it goes down by one and the object is destroyed at zero
AddRef(b, o) == [b EXCEPT !.count[o] = @ + 1]
Release(b, o) ==
    [b EXCEPT !.count[o] = @ - 1,
              !.alive[o] = b.count[o] - 1 # 0,
              !.relObj = o, !.relPtr = b.target]

\* a handle holds null or an object it has one of the references of
InitBox ==
    /\ CallCoreIdle
    /\ peer = [pc |-> "none"]
    /\ \E t \in {0} \cup (1..MaxObjs), c \in [(1..MaxObjs) -> 1..MaxCount] :
        box = [pc |-> "idle", target |-> t, count |-> c,
               alive |-> [o \in (1..MaxObjs) |-> TRUE],
               value |-> 0, bCheckTarget |-> TRUE, fn |-> "",
               target0 |-> t, count0 |-> c, alive0 |-> [o \in (1..MaxObjs) |-> TRUE],
               relObj |-> 0, relPtr |-> 0, calls |-> 0, afterGc |-> FALSE]

\* T ** target = (T **)UD(L, dest): the call is entered
Enter(fn, value, bCheckTarget) ==
    /\ box.pc = "idle" /\ box.calls < MaxCalls
    /\ box' = [box EXCEPT !.pc = "addref", !.fn = fn, !.value = value,
                          !.bCheckTarget = bCheckTarget,
                          !.target0 = box.target, !.count0 = box.count,
                          !.alive0 = box.alive, !.relObj = 0, !.relPtr = 0,
                          !.afterGc = box.fn = "luaT_gc_ref"]
    /\ UNCHANGED <<pc, params, args, bProtected, retc, count, top, after, r,
                   error, raised, result, invoked, callee, peer>>

\* luaT_boxed_set_ref(L, dest, value), bCheckTarget left at its default: null
\* or a live object is assigned
luaT_boxed_set_ref ==
    \E value \in {0} \cup {o \in (1..MaxObjs) : box.alive[o]} :
        Enter("luaT_boxed_set_ref", value, TRUE)

\* luaT_cons_set_ref(L, value): the handle is fresh and has no previous owner
luaT_cons_set_ref ==
    /\ box.calls = 0 /\ box.target = 0
    /\ \E value \in {0} \cup (1..MaxObjs) : Enter("luaT_cons_set_ref", value, FALSE)

\* luaT_gc_ref(L), as it would be if it did not check the target
luaT_gc_refUnchecked == Enter("luaT_gc_ref", 0, FALSE)
\* luaT_gc_ref(L)
luaT_gc_ref ==
    /\ box.pc = "idle"
    /\ Enter("luaT_gc_ref", 0, TRUE)

\* if (value != 0) value->AddRef(), as it would be without the call
SkipAddRef ==
    /\ box.pc = "addref"
    /\ box' = [box EXCEPT !.pc = "release"]
    /\ UNCHANGED <<pc, params, args, bProtected, retc, count, top, after, r,
                   error, raised, result, invoked, callee, peer>>
\* if (value != 0) value->AddRef();
AddRefValue ==
    /\ box.pc = "addref"
    /\ box' = [(IF box.value # 0 THEN AddRef(box, box.value) ELSE box)
                  EXCEPT !.pc = "release"]
    /\ UNCHANGED <<pc, params, args, bProtected, retc, count, top, after, r,
                   error, raised, result, invoked, callee, peer>>

\* if (bCheckTarget && *target != 0) (*target)->Release();
ReleaseTarget ==
    /\ box.pc = "release"
    /\ box' = [(IF box.bCheckTarget /\ box.target # 0
                THEN Release(box, box.target) ELSE box) EXCEPT !.pc = "store"]
    /\ UNCHANGED <<pc, params, args, bProtected, retc, count, top, after, r,
                   error, raised, result, invoked, callee, peer>>

\* *target = value, as it would be if the pointer were left alone
KeepTarget ==
    /\ box.pc = "store"
    /\ box' = [box EXCEPT !.pc = "idle", !.calls = @ + 1]
    /\ UNCHANGED <<pc, params, args, bProtected, retc, count, top, after, r,
                   error, raised, result, invoked, callee, peer>>
\* *target = value; return 0;
StoreValue ==
    /\ box.pc = "store"
    /\ box' = [box EXCEPT !.target = box.value, !.pc = "idle", !.calls = @ + 1]
    /\ UNCHANGED <<pc, params, args, bProtected, retc, count, top, after, r,
                   error, raised, result, invoked, callee, peer>>

NextBox ==
    \/ luaT_boxed_set_ref
    \/ luaT_cons_set_ref
    \/ luaT_gc_ref
    \/ AddRefValue
    \/ ReleaseTarget
    \/ StoreValue

SpecBox == InitBox /\ [][NextBox]_vars

-----------------------------------------------------------------------------
(* C17 *)

\* a call has been entered, and has returned
InCall == box.fn # ""
Completed == box.pc = "idle" /\ InCall

\* the counts are those at entry with one more reference to v and one fewer to
\* p, p is destroyed exactly if its count is 0, no other object is touched
Handoff(v, p) ==
    \A o \in (1..MaxObjs) :
        /\ box.count[o] = box.count0[o] + (IF o = v THEN 1 ELSE 0)
                                        - (IF o = p THEN 1 ELSE 0)
        /\ box.alive[o] = IF o = p THEN box.count[o] # 0 ELSE box.alive0[o]

\* C17: a call with target checking on that assigns V to a handle boxing P
\* adds one reference to V (if V is not null), takes one from P (if P is not
\* null), destroys P exactly if its count is then 0, and leaves the handle
\* boxing V.
C17_CountsHandedOver ==
    (Completed /\ box.bCheckTarget) =>
        /\ Handoff(box.value, box.target0)
        /\ box.target = box.value

C17_Witness ==
    /\ Completed /\ box.fn = "luaT_boxed_set_ref"
    /\ box.value # 0 /\ box.target0 # 0 /\ box.value # box.target0
    /\ ~box.alive[box.target0]
    /\ box.count[box.value] = box.count0[box.value] + 1

-----------------------------------------------------------------------------
(* C18 *)

SelfAssignment == InCall /\ box.value # 0 /\ box.value = box.target0

\* C18: when the time to release the previous object has come, the incoming
\* one has its new reference already and nothing has been released; so
\* assigning to a handle the object it boxes never brings that object's count
\* to 0, never destroys it, and leaves the count and the pointer as they were.
C18_IncrementFirst ==
    /\ (box.pc = "release" /\ box.value # 0) =>
          /\ box.count[box.value] = box.count0[box.value] + 1
          /\ box.relObj = 0
    /\ SelfAssignment =>
          /\ box.count[box.value] >= 1
          /\ box.alive[box.value]
          /\ Completed => (box.count = box.count0 /\ box.target = box.value)

C18_Witness ==
    /\ SelfAssignment /\ Completed
    /\ box.count0[box.value] = 1
    /\ box.relObj = box.value

-----------------------------------------------------------------------------
(* C19 *)

\* C19: when the previous object is released, the handle already boxes the
\* incoming value, and not the object being released.
C19_ReleasedAfterSwap ==
    box.relObj # 0 =>
        /\ box.relPtr = box.value
        /\ box.relPtr # box.relObj

-----------------------------------------------------------------------------
(* C20 *)

\* C20: luaT_gc_ref takes exactly one reference from the object the handle
\* boxes, destroys it exactly if its count is then 0, and leaves the handle
\* boxing null; run on a handle that boxes null it changes no count and
\* destroys nothing.
C20_FinalizerReleasesOnce ==
    (Completed /\ box.fn = "luaT_gc_ref") =>
        /\ Handoff(0, box.target0)
        /\ box.target = 0
        /\ box.target0 = 0 => (box.count = box.count0 /\ box.alive = box.alive0)

C20_Witness ==
    /\ Completed /\ box.fn = "luaT_gc_ref" /\ box.afterGc
    /\ box.target0 = 0 /\ box.count = box.count0
    /\ \E o \in (1..MaxObjs) : ~box.alive[o]

-----------------------------------------------------------------------------
(* C28 *)

\* the calls of ReadElement on a `u` or a `U`, with the pointer each was given
PointerEntries == {e \in LogEntries : e.tok \in {"u", "U"}}
Pointer(e) == args[e.ap0 + 1]

\* C28: wherever it stands, also under a false condition, a `U` given a null
\* pointer records "Null userdata" and pushes nothing; a `u` given one pushes
\* nil and records nothing; given a pointer that is not null both push the
\* same light userdata.
C28_NullPointers ==
    \A e \in PointerEntries :
        /\ (e.tok = "U" /\ Pointer(e) = 0) =>
              /\ e.err1 = "Null userdata"
              /\ e.h1 = e.h0
        /\ (e.tok = "u" /\ Pointer(e) = 0 /\ ~e.skip) =>
              /\ e.err1 = e.err0
              /\ e.h1 = e.h0 + 1 /\ e.v = NilV
        /\ (Pointer(e) # 0 /\ ~e.skip) =>
              /\ e.err1 = e.err0
              /\ e.h1 = e.h0 + 1 /\ e.v = UdV(Pointer(e))

-----------------------------------------------------------------------------
(* C25 *)

\* the `}` that closes the `{` at position p of f, the end of f if none does
RECURSIVE Close(_, _, _)
Close(f, p, depth) ==
    IF p > Len(f) THEN Len(f)
    ELSE IF f[p] = "{" THEN Close(f, p + 1, depth + 1)
    ELSE IF f[p] = "}"
         THEN IF depth = 1 THEN p ELSE Close(f, p + 1, depth - 1)
    ELSE Close(f, p + 1, depth)

\* the last position of the element that starts at position p of f, as the
\* format is written: a condition with the element it governs, a key with its
\* value, a table up to its `}`, or one directive
RECURSIVE ElemEnd(_, _)
ElemEnd(f, p) ==
    IF p >= Len(f) THEN Len(f)
    ELSE CASE f[p] = "C" -> ElemEnd(f, p + 1)
           [] f[p] = "K" -> ElemEnd(f, ElemEnd(f, p + 1) + 1)
           [] f[p] = "{" -> Close(f, p, 0)
           [] OTHER -> p

\* the boolean passed for the `C` at position c: one argument for every
\* argument-reading directive up to it
Cond(c) == args[Cardinality({q \in 1..c : params[q] \in ArgToks})] # 0

\* the conditions that enclose position p
Enclosing(p) ==
    {c \in 1..(p - 1) : params[c] = "C" /\ ElemEnd(params, c) >= p}

CondEntries == {e \in LogEntries : e.tok = "C" /\ ~e.inKey /\ ~e.inValue}

\* a format without key/value pairs
NoPairs == \A q \in 1..Len(params) : params[q] # "K"

\* the condition read at c stands first in its chain of conditions and
\* governs an integer or a table
Outermost(c) ==
    /\ c.pos < Len(params) /\ params[c.pos + 1] \in {"i", "{"}
    /\ c.pos = 1 \/ params[c.pos - 1] # "C"

\* C25: an integer element is pushed exactly if every condition that encloses
\* it is true; every condition consumes its boolean, also under a false
\* condition; and the element read next after a condition's element is read
\* under the suppression that held before the condition.
C25_SuppressionScoped ==
    /\ \A e \in LogEntries :
          (NoPairs /\ e.tok = "i") =>
              ((e.h1 = e.h0 + 1) <=> \A c \in Enclosing(e.pos) : Cond(c))
    /\ \A c \in CondEntries : c.ap1 >= c.ap0 + 1
    /\ \A c \in CondEntries, n \in LogEntries :
          (c.ret /\ Outermost(c) /\ n.pos = c.end + 1) => n.skip = c.skip

-----------------------------------------------------------------------------
(* C26 *)

\* the calls of ReadElement on a `C` or a `K` that stands where a `K` expects
\* its key
KeyPositionEntries ==
    {e \in LogEntries : /\ e.tok \in {"C", "K"}
                        /\ e.inKey
                        /\ e.pos > 1 /\ params[e.pos - 1] = "K"}

\* C26: a `C` or a `K` read as the key of a `K` records a structural error,
\* pushes nothing and leaves every table as it was.
C26_DirectiveAsKeyRejected ==
    \A e \in KeyPositionEntries :
        /\ e.err0 = NoError => e.err1 # NoError
        /\ ~e.raised
        /\ e.h1 = e.h0
        /\ \A t \in DOMAIN e.heap0 : e.heap1[t] = e.heap0[t]

-----------------------------------------------------------------------------
(* C27 *)

\* the table literals read to their `}` without an error
TablesRead ==
    {t \in LogEntries : /\ t.tok = "{" /\ t.ret /\ t.err1 = NoError
                        /\ t.h1 = t.h0 + 1 /\ params[t.end] = "}"}

\* the elements of the literal t that were pushed without a key, and the
\* place of such an element among them, from the left
Unkeyed(t) ==
    {e \in LogEntries : /\ e.pos > t.pos /\ e.pos < t.end
                        /\ e.depth = t.depth + 1
                        /\ e.tok \notin {"C", "K", "}"}
                        /\ ~e.inKey /\ ~e.inValue
                        /\ e.h1 = e.h0 + 1}
Place(t, e) == Cardinality({x \in Unkeyed(t) : x.pos <= e.pos})

\* the keys the pairs of the literal were given
KeysOf(t) ==
    {e.v : e \in {x \in LogEntries : x.pos > t.pos /\ x.pos < t.end /\ x.inKey}}

\* C27: in a table literal the j-th element pushed without a key, a nil
\* included, is the table's entry j, and the table has no other integer index
\* than these and the keys of its pairs.
C27_PositionalIndices ==
    \A t \in TablesRead :
        LET tbl == t.heap1[t.v.n]
        IN  /\ \A e \in Unkeyed(t) : RawGet(tbl, NumV(Place(t, e))) = e.v
            /\ \A x \in tbl :
                  x.k.t = "number" =>
                      \/ x.k \in KeysOf(t)
                      \/ x.k.n \in 1..Cardinality(Unkeyed(t))

-----------------------------------------------------------------------------
(* Helpers.cpp: the registry cache *)

\* Lua::CacheAndGet(L, name, key): the registry entry under the light userdata
\* `key`; when there is none, the global `name` is resolved with the key on the
\* stack and stored under it by lua_rawset; the value is left on the stack
CacheAndGetName(m, name, key) ==
    LET hit == RawGet(m.mL.heap[RegistryId], UdV(key))
    IN  IF hit # NilV THEN PushValue(m, hit)
        ELSE Only({ IF Raised(g) THEN g
                    ELSE [g EXCEPT !.mL.heap[RegistryId] =
                                       RawSet(@, UdV(key), g.mL.stack[Height(g)]),
                                   !.mL.stack = Append(m.mL.stack, @[Height(g)])]
                    : g \in {GetGlobal(PushValue(m, UdV(key)), name)} })

\* Lua::CacheAndGet(L, func): the same with the function's address as key and
\* the function as value
CacheAndGetFunc(m, func) ==
    LET hit == RawGet(m.mL.heap[RegistryId], UdV(func))
    IN  IF hit # NilV THEN PushValue(m, hit)
        ELSE [m EXCEPT !.mL.heap[RegistryId] = RawSet(@, UdV(func), FuncV(func)),
                       !.mL.stack = Append(@, FuncV(func))]

\* the position of the last dot of a name, 0 when there is none
RECURSIVE LastDot(_, _)
LastDot(name, i) ==
    IF i = 0 THEN 0 ELSE IF name[i] = "." THEN i ELSE LastDot(name, i - 1)

\* Lua::SetGlobal: the value on top of the stack is stored under the last
\* level of the name, in the table the levels before it lead to, and popped
SetGlobal(m, name) ==
    LET dot == LastDot(name, Len(name))
        lev == IF dot = 0 THEN [v |-> TableV(GlobalsId), err |-> NoError]
               ELSE GetGlobalFrom(m.mL.heap, TableV(GlobalsId),
                                  SubSeq(name, 1, dot - 1))
        key == StrV(Join(SubSeq(name, dot + 1, Len(name))))
    IN  IF lev.err # NoError THEN LuaError(m, lev.err)
        ELSE IF lev.v.t # "table"
        THEN LuaError(m, "attempt to index a " \o lev.v.t \o " value")
        ELSE [m EXCEPT !.mL.heap[lev.v.n] = RawSet(@, key, m.mL.stack[Height(m)]),
                       !.mL.stack = SubSeq(@, 1, Height(m) - 1)]

\* the keys and the functions the callers pass: addresses of statics
CacheKeys == {1, 2}
CacheFuncs == {10, 11}

\* the record of one call: its arguments, the Lua state before and after it
Called(op, name, key, m) ==
    [m EXCEPT !.log = Append(@, [op |-> op, name |-> name, key |-> key,
                                 h0 |-> Height(r), h1 |-> Height(m),
                                 heap0 |-> r.mL.heap, heap1 |-> m.mL.heap,
                                 raised |-> Raised(m),
                                 v |-> IF Height(m) > 0 THEN m.mL.stack[Height(m)]
                                       ELSE NilV])]

\* a fresh Lua state, no call of CallCore, no bound object
InitCache ==
    /\ CallCoreIdle
    /\ peer = [pc |-> "none"]
    /\ box = [pc |-> "none"]

HelperIdle ==
    /\ pc = "idle" /\ peer.pc = "none" /\ box.pc = "none"
    /\ ~Raised(r)
    /\ Len(r.log) < MaxSteps

HelperFrame ==
    UNCHANGED <<pc, params, args, bProtected, retc, count, top, after, error,
                raised, result, invoked, callee, peer, box>>

LookupNamed ==
    /\ HelperIdle
    /\ \E i \in 1..Len(NamePool), key \in CacheKeys :
          r' = Called("name", NamePool[i], key,
                      CacheAndGetName(r, NamePool[i], key))
    /\ HelperFrame

LookupFunc ==
    /\ HelperIdle
    /\ \E f \in CacheFuncs : r' = Called("func", <<>>, f, CacheAndGetFunc(r, f))
    /\ HelperFrame

\* the program assigns a global in between: a number, a function, or nil
AssignGlobal ==
    /\ HelperIdle
    /\ \E i \in 1..2, v \in {NumV(1), FuncV(2), NilV} :
          r' = Called("set", NamePool[i], 0,
                      SetGlobal(PushValue(r, v), NamePool[i]))
    /\ HelperFrame

NextCache == LookupNamed \/ LookupFunc \/ AssignGlobal

SpecCache == InitCache /\ [][NextCache]_vars

-----------------------------------------------------------------------------
(* C24 *)

Lookups == {i \in 1..Len(r.log) : r.log[i].op \in {"name", "func"} /\ ~r.log[i].raised}

\* the first lookup of the key of lookup i
FirstOf(i) == CHOOSE j \in Lookups :
                  /\ r.log[j].key = r.log[i].key
                  /\ \A k \in Lookups : r.log[k].key = r.log[j].key => j <= k

Registry(heap, key) == RawGet(heap[RegistryId], UdV(key))

\* C24: a lookup leaves one value on the stack; the first lookup of a key
\* leaves the global resolved then, or the function, and stores it in the
\* registry under the key; every later lookup of the key (for the same name)
\* leaves the same value whatever the globals have become; and no lookup
\* changes the entry of another key.
C24_CachedAfterFirstUse ==
    \A i \in Lookups :
        LET e == r.log[i]
            first == r.log[FirstOf(i)]
        IN  /\ e.h1 = e.h0 + 1
            /\ i = FirstOf(i) =>
                  /\ e.op = "name" =>
                        e.v = GetGlobalFrom(e.heap0, TableV(GlobalsId), e.name).v
                  /\ e.op = "func" => e.v = FuncV(e.key)
                  /\ Registry(e.heap1, e.key) = e.v
            /\ e.name = first.name => e.v = first.v
            /\ \A k \in (CacheKeys \cup CacheFuncs) \ {e.key} :
                  Registry(e.heap1, k) = Registry(e.heap0, k)

-----------------------------------------------------------------------------
(* Helpers.cpp: Unpack *)

\* a failed assert: the process is aborted, unless the build defines NDEBUG
Aborted == "Assertion failed: start <= end"

\* Lua::Unpack: the machines a call may leave.  Negative bounds are resolved
\* against GetN and checked by the assert, which a build with NDEBUG leaves
\* out; the loop then pushes source[start], ..., source[end] with lua_rawgeti
Unpack(m, source, start, end) ==
    LET tv == Index2Value(m, IndexAbsolute(m, source))
        len == GetN(m, tv)
        s == IF start < 0 THEN len + start + 1 ELSE start
        e == IF end < 0 THEN len + end + 1 ELSE end
        done == [m EXCEPT !.mL.stack =
                    @ \o [i \in 1..(e - s + 1) |->
                            RawGet(m.mL.heap[tv.n], NumV(s + i - 1))]]
    IN  IF tv.t # "table" THEN {Undefined(m)}
        ELSE IF (start < 0 \/ end < 0) /\ ~(s <= e)
        THEN {LuaError(m, Aborted), done}
        ELSE {done}

UnpackIdle ==
    /\ pc = "idle" /\ peer.pc = "none" /\ box.pc = "none"
    /\ ~Raised(r)
    /\ r.log = <<>>

\* the program builds a list: lua_newtable, then values appended with Push
NewList ==
    /\ UnpackIdle
    /\ Height(r) = 0
    /\ r' = lua_newtable(r)
    /\ HelperFrame

AppendToList ==
    /\ UnpackIdle
    /\ Height(r) = 1
    /\ GetN(r, r.mL.stack[1]) < MaxLen
    /\ \E v \in {NumV(5), StrV("a")} : r' = Push(PushValue(r, v))
    /\ HelperFrame

\* Unpack(L, source, start, end), on the list or on the table of globals
UnpackList ==
    /\ UnpackIdle
    /\ \E source \in {-1, 1, LUA_GLOBALSINDEX},
          start, end \in (-MaxLen - 1)..(MaxLen + 1) :
        \E m \in Unpack(r, source, start, end) :
          /\ Index2Value(r, IndexAbsolute(r, source)).t = "table"
          /\ r' = [m EXCEPT !.log =
                      <<[source |-> source, start |-> start, end |-> end,
                         tbl |-> r.mL.heap[Index2Value(r, IndexAbsolute(r, source)).n],
                         h0 |-> Height(r),
                         aborted |-> m.lerr = Aborted,
                         pushed |-> SubSeq(m.mL.stack, Height(r) + 1, Height(m))]>>]
    /\ HelperFrame

NextUnpack == NewList \/ AppendToList \/ UnpackList

SpecUnpack == InitCache /\ [][NextUnpack]_vars

-----------------------------------------------------------------------------
(* C30 *)

\* a bound as the claim resolves it: a negative one counts from the end
Resolved(x, tbl) == IF x < 0 THEN Border(tbl, 0) + x + 1 ELSE x

\* the elements tbl[a], ..., tbl[b] in ascending order
Slice(tbl, a, b) == [i \in 1..(b - a + 1) |-> RawGet(tbl, NumV(a + i - 1))]

\* C30: a call that is not aborted pushes source[start..end], a negative
\* bound counting from the end of the table; with the bounds 1 and -1 the
\* call is never aborted by its assert and pushes every element, also of the
\* empty table.
C30_UnpackPushesRange ==
    \A e \in LogEntries :
        /\ ~e.aborted =>
              e.pushed = Slice(e.tbl, Resolved(e.start, e.tbl), Resolved(e.end, e.tbl))
        /\ (e.start = 1 /\ e.end = -1) =>
              /\ ~e.aborted
              /\ e.pushed = Slice(e.tbl, 1, Border(e.tbl, 0))

-----------------------------------------------------------------------------
(* Templates.h: the construction hooks, luaT_boxed_set_ref and luaT_gc_ref *)
(* on several handles.  box.slot is the pointer each handle boxes,          *)
(* box.made the handles constructed, box.dead those collected, box.born the *)
(* objects constructed so far; box.last is the call just made with the      *)
(* state it was entered in.                                                 *)

\* luaT_boxed_set_ref(L, dest, value, bCheckTarget), as it would be if
\* bCheckTarget were always on
SetRefChecked(b, h, value, bCheckTarget) ==
    LET b0 == [b EXCEPT !.target = b.slot[h]]
        b1 == IF value # 0 THEN AddRef(b0, value) ELSE b0
        b2 == IF b1.target # 0 /\ b1.alive[b1.target]
              THEN Release(b1, b1.target) ELSE b1
    IN  [b2 EXCEPT !.slot[h] = value, !.target = value]

\* the same, as it would be without the AddRef
SetRefNoAddRef(b, h, value, bCheckTarget) ==
    LET b0 == [b EXCEPT !.target = b.slot[h]]
        b2 == IF bCheckTarget /\ b0.target # 0
              THEN Release(b0, b0.target) ELSE b0
    IN  [b2 EXCEPT !.slot[h] = value, !.target = value]

\* luaT_boxed_set_ref(L, dest, value, bCheckTarget), lines 139 to 144 in order
SetRef(b, h, value, bCheckTarget) ==
    LET b0 == [b EXCEPT !.target = b.slot[h]]
        b1 == IF value # 0 THEN AddRef(b0, value) ELSE b0
        b2 == IF bCheckTarget /\ b1.target # 0
              THEN Release(b1, b1.target) ELSE b1
    IN  [b2 EXCEPT !.slot[h] = value, !.target = value]

\* new T: an object at an address no live object has, its count as T's
\* constructor leaves it
New(b, o) == [b EXCEPT !.count[o] = 0, !.alive[o] = TRUE, !.born = @ \cup {o}]

\* no handle yet, no object yet
InitHandles ==
    /\ CallCoreIdle
    /\ peer = [pc |-> "none"]
    /\ box = [pc |-> "handles",
              slot |-> [h \in 1..MaxHandles |-> 0],
              made |-> {}, dead |-> {},
              count |-> [o \in 1..MaxObjs |-> 0],
              alive |-> [o \in 1..MaxObjs |-> FALSE],
              born |-> {}, target |-> 0, relObj |-> 0, relPtr |-> 0,
              calls |-> 0,
              last |-> [fn |-> "", h |-> 0, value |-> 0, held |-> 0,
                        count0 |-> [o \in 1..MaxObjs |-> 0],
                        alive0 |-> [o \in 1..MaxObjs |-> FALSE],
                        born0 |-> {}]]

HandlesIdle ==
    /\ pc = "idle" /\ peer.pc = "none" /\ box.pc = "handles"
    /\ box.calls < MaxSteps

\* the handles in use, and the pointers a caller can take from them
InUse == box.made \ box.dead
Boxed == {box.slot[k] : k \in InUse}

\* the call fn on handle h with `value`; `held` is what the slot held before
Did(fn, h, value, held, b) ==
    /\ box' = [b EXCEPT !.calls = @ + 1,
                        !.last = [fn |-> fn, h |-> h, value |-> value,
                                  held |-> held, count0 |-> box.count,
                                  alive0 |-> box.alive, born0 |-> box.born]]
    /\ UNCHANGED <<pc, params, args, bProtected, retc, count, top, after, r,
                   error, raised, result, invoked, callee, peer>>

\* a handle is constructed on a fresh userdata, whose memory holds anything:
\* null, or the address of an object, live or not
Fresh(b, h, held) ==
    [b EXCEPT !.slot[h] = held, !.made = @ \cup {h}]

\* luaT_cons_ref: luaT_cons_set_ref(L, new T)
luaT_cons_ref ==
    /\ HandlesIdle
    /\ \E h \in (1..MaxHandles) \ box.made, held \in 0..MaxObjs,
          o \in {x \in 1..MaxObjs : ~box.alive[x]} :
          Did("luaT_cons_ref", h, o, held,
              SetRef(New(Fresh(box, h, held), o), h, o, FALSE))

\* luaT_cons_refp, luaT_cons_refp_or_null and luaT_cons_ref_copy: the pointer
\* argument 2 resolves to is adopted, null for an absent argument
luaT_cons_refp ==
    /\ HandlesIdle
    /\ \E h \in (1..MaxHandles) \ box.made, held \in 0..MaxObjs,
          fn \in {"luaT_cons_refp", "luaT_cons_refp_or_null", "luaT_cons_ref_copy"} :
        \E value \in Boxed \cup (IF fn = "luaT_cons_refp" THEN {} ELSE {0}) :
          Did(fn, h, value, held, SetRef(Fresh(box, h, held), h, value, FALSE))

\* luaT_boxed_set_ref(L, dest, value) on a handle in use
SetHandle ==
    /\ HandlesIdle
    /\ \E h \in InUse, value \in Boxed \cup {0} :
          Did("luaT_boxed_set_ref", h, value, box.slot[h],
              SetRef(box, h, value, TRUE))

\* luaT_gc_ref: the handle is collected
CollectHandle ==
    /\ HandlesIdle
    /\ \E h \in InUse :
          Did("luaT_gc_ref", h, 0, box.slot[h],
              [SetRef(box, h, 0, TRUE) EXCEPT !.dead = @ \cup {h}])

NextHandles == luaT_cons_ref \/ luaT_cons_refp \/ SetHandle \/ CollectHandle

SpecHandles == InitHandles /\ [][NextHandles]_vars

-----------------------------------------------------------------------------
(* C21 *)

ConsHooks ==
    {"luaT_cons_ref", "luaT_cons_refp", "luaT_cons_refp_or_null",
     "luaT_cons_ref_copy"}

\* C21: a construction hook leaves alone the object whose address the fresh
\* slot happened to hold; after luaT_cons_ref the handle boxes an object
\* constructed by the call, with count 1; after an existing object is adopted
\* its count is one higher; no other object is touched.
C21_HooksAdoptWithoutRelease ==
    box.last.fn \in ConsHooks =>
        LET l == box.last
            new == l.fn = "luaT_cons_ref"
        IN  /\ box.slot[l.h] = l.value
            /\ \A o \in (1..MaxObjs) \ {l.value} :
                  /\ box.count[o] = l.count0[o]
                  /\ box.alive[o] = l.alive0[o]
            /\ new => /\ ~l.alive0[l.value]
                      /\ box.alive[l.value]
                      /\ box.count[l.value] = 1
            /\ (~new /\ l.value # 0) =>
                  /\ box.count[l.value] = l.count0[l.value] + 1
                  /\ box.alive[l.value] = l.alive0[l.value]

\* a fresh slot that held the address of a live object, the very object the
\* handle then adopted
C21_Witness ==
    /\ box.last.fn = "luaT_cons_refp"
    /\ box.last.held # 0 /\ box.last.alive0[box.last.held]
    /\ box.last.held = box.last.value
    /\ box.count[box.last.value] = 2

-----------------------------------------------------------------------------
(* C29 *)

\* the handles in use that box o
Referring(o) == {h \in InUse : box.slot[h] = o}

\* C29: every object constructed has as many references as handles box it,
\* and is destroyed exactly if no handle boxes it.
C29_CountsMatchHandles ==
    \A o \in box.born :
        /\ box.alive[o] => box.count[o] = Cardinality(Referring(o))
        /\ box.alive[o] <=> Referring(o) # {}

\* two handles boxed one object, one was collected and the object lives on;
\* another object was destroyed with its last handle
C29_Witness ==
    /\ box.last.fn = "luaT_gc_ref"
    /\ \E o \in box.born : box.alive[o] /\ box.count[o] = 1 /\ box.last.count0[o] = 2

-----------------------------------------------------------------------------
(* Templates.h: luaT_ptr, luaT_ptr_or_null and the get-member helpers.  The *)
(* arguments are on the stack of r; box.mem is native memory by address,    *)
(* box.last the call just made.                                             *)

\* the userdata of the model by address: an instance of the boxed type (its
\* memory is a pointer to a T, or null), an instance of T, an instance of
\* another type, a userdata that is no instance; what class.IsInstance and
\* class.IsType answer for them
BoxedObj == 1000
BoxedNull == 1050
PlainObj == 1100
OtherObj == 1200
RawObj == 1300
LightPtr == 1400
Referent == 3000
NewObj == 5000
ClassOf(v) ==
    IF v.t # "userdata" THEN ""
    ELSE CASE v.n \in {BoxedObj, BoxedNull} -> "Boxed T"
           [] v.n \in {PlainObj, NewObj} -> "T"
           [] v.n = OtherObj -> "Other"
           [] OTHER -> ""

\* Class::IsInstance and Class::IsType: the answer of the Lua function, as a
\* boolean; the stack is left as it was
IsInstance(m, index) == ClassOf(Index2Value(m, IndexAbsolute(m, index))) # ""
IsType(m, index, type) == ClassOf(Index2Value(m, IndexAbsolute(m, index))) = type

\* luaT_ptr<T> without the test of line 29
luaT_ptrUntyped(m, mem, index) ==
    LET ud == UD(Index2Value(m, IndexAbsolute(m, index)), index)
    IN  IF ud.err # NoError THEN [err |-> ud.err, ptr |-> 0]
        ELSE IF IsInstance(m, index) /\ IsType(m, index, "Boxed T")
        THEN [err |-> NoError, ptr |-> mem[Only(ud.vals)]]
        ELSE [err |-> NoError, ptr |-> Only(ud.vals)]

\* luaT_ptr<T>: the pointer returned, or the error raised
luaT_ptr(m, mem, index) ==
    LET ud == UD(Index2Value(m, IndexAbsolute(m, index)), index)
        raw == IF ud.err # NoError THEN [err |-> ud.err, ptr |-> 0]
               ELSE [err |-> NoError, ptr |-> Only(ud.vals)]
    IN  IF IsInstance(m, index)
        THEN IF IsType(m, index, "Boxed T")
             THEN IF ud.err # NoError THEN raw
                  ELSE [err |-> NoError, ptr |-> mem[Only(ud.vals)]]
             ELSE IF ~IsType(m, index, "T")
             THEN [err |-> "Arg #" \o ToString(index) \o ": non-T / Boxed T",
                   ptr |-> 0]
             ELSE raw
        ELSE raw

\* lua_isnoneornil
lua_isnoneornil(m, index) == Index2Value(m, IndexAbsolute(m, index)) = NilV

\* luaT_ptr_or_null<T>
luaT_ptr_or_null(m, mem, index) ==
    IF ~lua_isnoneornil(m, index) THEN luaT_ptr(m, mem, index)
    ELSE [err |-> NoError, ptr |-> 0]

\* lua_settop(L, index)
lua_settop(m, index) ==
    SetTop(m, IF index >= 0 THEN index ELSE Height(m) + index + 1)

\* Class::New(L, type, "u", &d): class.New returns one value, a new instance
\* of the type that holds a copy of d
ClassNew(c, d) ==
    [c EXCEPT !.m = PushValue(@, FullUdV(NewObj)), !.mem[NewObj] = d]

\* luaT_get_member_arg with bTop ignored: the stack is always truncated
luaT_get_member_argTruncating(m, mem, index, d, bTop) ==
    LET c == [m |-> m, mem |-> mem, err |-> NoError, ret |-> 1, ub |-> FALSE]
        p == luaT_ptr(m, mem, index)
    IN  IF ~lua_isnoneornil(m, index)
        THEN IF p.err # NoError THEN [c EXCEPT !.err = p.err, !.ret = 0]
             ELSE IF p.ptr = 0 THEN [c EXCEPT !.ub = TRUE]
             ELSE [c EXCEPT !.mem[p.ptr] = d, !.m = lua_settop(m, index)]
        ELSE ClassNew(c, d)

\* luaT_get_member_arg, with luaT_ref<D> as ref: d is stored through the
\* pointer the slot resolves to (through a null pointer: undefined), or a new
\* instance is made of it
luaT_get_member_arg(m, mem, index, d, bTop) ==
    LET c == [m |-> m, mem |-> mem, err |-> NoError, ret |-> 1, ub |-> FALSE]
        p == luaT_ptr(m, mem, index)
    IN  IF ~lua_isnoneornil(m, index)
        THEN IF p.err # NoError THEN [c EXCEPT !.err = p.err, !.ret = 0]
             ELSE IF p.ptr = 0 THEN [c EXCEPT !.ub = TRUE]
             ELSE [c EXCEPT !.mem[p.ptr] = d,
                            !.m = IF bTop THEN lua_settop(m, index) ELSE m]
        ELSE ClassNew(c, d)

\* luaT_get_member_ref: D d; (pObject->*func)(d); and luaT_get_member_retv:
\* (pObject->*func)(); pObject's member is what is handed on
luaT_get_member_ref(m, mem, pObject, index, bTop) ==
    luaT_get_member_arg(m, mem, index, pObject.member, bTop)
luaT_get_member_retv(m, mem, pObject, index, bTop) ==
    luaT_get_member_arg(m, mem, index, pObject.member, bTop)

\* the values a caller may find in an argument slot
SlotValues ==
    {FullUdV(BoxedObj), FullUdV(BoxedNull), FullUdV(PlainObj), FullUdV(OtherObj),
     FullUdV(RawObj), UdV(LightPtr), NilV, NumV(3)}

\* a C function entered with up to MaxStack arguments; every object holds 0
InitTyped ==
    /\ pc = "idle" /\ params = <<>> /\ args = <<>> /\ bProtected = FALSE
    /\ retc = 0 /\ count = 0 /\ top = 0 /\ after = 0
    /\ error = "" /\ raised = NotRaised /\ result = 0 /\ invoked = 0
    /\ callee = Only(Outcomes)
    /\ peer = [pc |-> "none"]
    /\ \E st \in SeqsUpTo(SlotValues, MaxStack) :
          r = Reader([stack |-> st, heap |-> InitHeap], 0)
    /\ box = [pc |-> "typed",
              mem |-> [a \in {BoxedObj, BoxedNull, PlainObj, OtherObj, RawObj,
                              LightPtr, Referent, NewObj} |->
                         IF a = BoxedObj THEN Referent ELSE 0],
              last |-> [fn |-> "", index |-> 0, d |-> 0, bTop |-> TRUE,
                        err |-> NoError, ptr |-> 0, ret |-> 0,
                        stack0 |-> <<>>, mem0 |-> <<>>]]

TypedIdle ==
    /\ pc = "idle" /\ peer.pc = "none" /\ box.pc = "typed"
    /\ box.last.fn = ""

\* the indices a caller passes: a slot, the first slot above the top, the top
Indices == (1..(MaxStack + 1)) \cup {-1}

\* luaT_ptr<T>(L, index) or luaT_ptr_or_null<T>(L, index)
Resolve ==
    /\ TypedIdle
    /\ \E index \in Indices, fn \in {"luaT_ptr", "luaT_ptr_or_null"} :
          LET p == IF fn = "luaT_ptr" THEN luaT_ptr(r, box.mem, index)
                   ELSE luaT_ptr_or_null(r, box.mem, index)
          IN  /\ index < 0 => -index <= Height(r)
              /\ box' = [box EXCEPT !.last =
                            [@ EXCEPT !.fn = fn, !.index = index, !.err = p.err,
                                      !.ptr = p.ptr, !.stack0 = r.mL.stack,
                                      !.mem0 = box.mem]]
    /\ UNCHANGED <<pc, params, args, bProtected, retc, count, top, after, r,
                   error, raised, result, invoked, callee, peer>>

\* one of the get-member helpers, for an object whose member is 5 or 6
GetMember ==
    /\ TypedIdle
    /\ \E index \in Indices, d \in {5, 6}, bTop \in BOOLEAN,
          fn \in {"luaT_get_member_arg", "luaT_get_member_ref",
                  "luaT_get_member_retv"} :
          LET c == CASE fn = "luaT_get_member_arg" ->
                          luaT_get_member_arg(r, box.mem, index, d, bTop)
                     [] fn = "luaT_get_member_ref" ->
                          luaT_get_member_ref(r, box.mem, [member |-> d], index, bTop)
                     [] OTHER ->
                          luaT_get_member_retv(r, box.mem, [member |-> d], index, bTop)
          IN  /\ index < 0 => -index <= Height(r)
              /\ ~c.ub
              /\ r' = c.m
              /\ box' = [box EXCEPT !.mem = c.mem,
                                    !.last = [@ EXCEPT !.fn = fn, !.index = index,
                                                       !.d = d, !.bTop = bTop,
                                                       !.err = c.err, !.ret = c.ret,
                                                       !.stack0 = r.mL.stack,
                                                       !.mem0 = box.mem]]
    /\ UNCHANGED <<pc, params, args, bProtected, retc, count, top, after,
                   error, raised, result, invoked, callee, peer>>

NextTyped == Resolve \/ GetMember

SpecTyped == InitTyped /\ [][NextTyped]_vars

-----------------------------------------------------------------------------
(* C22 *)

Resolved22 == box.last.fn \in {"luaT_ptr", "luaT_ptr_or_null"}

\* the argument of the call just made; nil when the slot is absent
Arg22 ==
    LET i == IF box.last.index < 0 THEN Len(box.last.stack0) + box.last.index + 1
             ELSE box.last.index
    IN  IF i >= 1 /\ i <= Len(box.last.stack0) THEN box.last.stack0[i] ELSE NilV

WrongType22 == "Arg #" \o ToString(box.last.index) \o ": non-T / Boxed T"
NoUserdata22 == "Argument " \o ToString(box.last.index) \o " is not a userdata"

\* the four outcomes the claim lists, for an argument v
FourOutcomes(v) ==
    CASE ClassOf(v) = "Boxed T" -> box.last.err = NoError /\ box.last.ptr = box.last.mem0[v.n]
      [] ClassOf(v) = "T" -> box.last.err = NoError /\ box.last.ptr = v.n
      [] ClassOf(v) = "Other" -> box.last.err = WrongType22
      [] OTHER -> box.last.err = NoError /\ box.last.ptr = v.n

-----------------------------------------------------------------------------
(* C23 *)

GotMember == box.last.fn \in {"luaT_get_member_arg", "luaT_get_member_ref",
                              "luaT_get_member_retv"}

\* where luaT_ptr resolved the slot to, at entry
Dest23 == luaT_ptr([mL |-> [stack |-> box.last.stack0, heap |-> r.mL.heap]],
                   box.last.mem0, box.last.index)

AbsIndex23 ==
    IF box.last.index < 0 THEN Len(box.last.stack0) + box.last.index + 1
    ELSE box.last.index

\* a new instance holding d on top of the stack as it was, nothing else changed
FreshPushed ==
    /\ r.mL.stack = Append(box.last.stack0, FullUdV(NewObj))
    /\ box.mem = [box.last.mem0 EXCEPT ![NewObj] = box.last.d]

\* d stored in the object the slot resolves to, nothing else changed
StoredInPlace == box.mem = [box.last.mem0 EXCEPT ![Dest23.ptr] = box.last.d]

\* C23: each helper returns 1; a slot that holds an object has the value
\* stored in that object and the stack cut to the slot; an absent or nil slot
\* has one new instance holding the value pushed and nothing else changed.
C23_MemberStoredOrPushed ==
    (GotMember /\ box.last.err = NoError) =>
        /\ box.last.ret = 1
        /\ IF Arg22 = NilV THEN FreshPushed
           ELSE /\ StoredInPlace
                /\ Height(r) = AbsIndex23
                /\ r.mL.stack = SubSeq(box.last.stack0, 1, AbsIndex23)

\* C23 (amended): the stack is cut to the slot if bTop is set, as it is by
\* default, and left as it was if it is not.
C23_TruncatedIfTop ==
    (GotMember /\ box.last.err = NoError) =>
        /\ box.last.ret = 1
        /\ IF Arg22 = NilV THEN FreshPushed
           ELSE /\ StoredInPlace
                /\ r.mL.stack = IF box.last.bTop
                                THEN SubSeq(box.last.stack0, 1, AbsIndex23)
                                ELSE box.last.stack0

\* the value went through a boxed instance below the top, bTop was off and
\* the stack was left as it was
C23_Witness ==
    /\ box.last.fn = "luaT_get_member_retv" /\ ~box.last.bTop
    /\ box.last.err = NoError
    /\ Len(box.last.stack0) = 2 /\ box.last.index = 1
    /\ box.last.stack0[1] = FullUdV(BoxedObj)
    /\ box.mem[Referent] = box.last.d /\ Height(r) = 2

====
